---- MODULE Spec2Model ----
(***************************************************************************)
(* Model of the embeddable chat widget (scripts/script.js and its          *)
(* near-identical variants): the response normalizer, the conversation     *)
(* send path and the iOS latched keyboard-occlusion tracker.               *)
(*                                                                         *)
(* The specifications share the variables; each leaves the other           *)
(* components idle (SpecDirect is the direct keyboard strategy of the      *)
(* Android branch):                                                        *)
(*   SpecNorm   normalize applied to one backend payload                   *)
(*   Spec       the conversation: typing, submitting, request round trips  *)
(*   SpecFair   Spec with the fairness of the event loop's timers          *)
(*   SpecLatch  the latched keyboard tracker and its timers                *)
(*   SpecLatchFair  SpecLatch with the fairness of its timers              *)
(*   SpecDirect the direct keyboard strategy                               *)
(*   SpecPage   script loads and calls of MedAssistWidget.init             *)
(*   SpecPublish  the values written to the --kb property                  *)
(***************************************************************************)
EXTENDS Integers, Sequences, FiniteSets, TLC

VARIABLES
  payload,      \* normalizer: the value handed to normalize(data)
  result,       \* normalizer: what the call produced (a reply record or a throw)
  npc,          \* normalizer: "ready" before the call, "done" after
  result2,      \* normalizer: what a second call on the same payload produced
  cfg,          \* widget options: endpoint and id set or not, mock mode
  platform,     \* which copy of the widget runs, and whether on iOS
  sendDisabled, \* sendEl.disabled
  msgValue,     \* msgEl.value, the composer text
  history,      \* the in-memory conversation turns
  inflight,     \* callApi requests issued and not settled: their bodies
  delayTimers,  \* pending __medassistDelayOnce timers: the captured text and id
  errors,       \* error rows showError has added to the stream
  listeners,    \* pointerdown listeners registered on the send button
  appended,     \* every turn ever pushed to history, in order (history variable)
  reqs,         \* for each request in flight: its phase, its abort timer, whether
                \* cfg.timeout ms have passed since it was issued, and the HTTP
                \* status received (0 before the response)
  calls,        \* how many times callApi has been invoked
  fetches,      \* how many times fetch() has been called
  outcome,      \* the promise of the latest callApi: pending, resolved or rejected
  abortTimers,  \* abort timers armed by callApi and neither cleared nor fired
  hasVV,        \* window.visualViewport exists (VV is not null)
  latched,      \* tracker: latched / __latched
  lastPx,       \* tracker: lastPx / __lastPx
  zeroTimer,    \* tracker: a grace timer is pending (zeroTimer is not null)
  graceTimers,  \* tracker: the grace timers armed and neither cleared nor fired,
                \* oldest first; each is TRUE once a later sample below
                \* CLOSE_THRESH has found it pending
  kb,           \* the published --kb value, in px
  intervals,    \* focus re-sampling intervals: how many have k ticks left
  pumpPending,  \* pending debounce timers of the tracker's viewport pump
  vvPending,    \* pending debounce timers of the second viewport handler
  orientTimers, \* pending orientation-change settle timers
  ev,           \* the handler that ran last, with the occlusion it sampled
  run,          \* the samples and publications of the tracker since construction,
                \* kept while they follow the scenario of section 8
  innerHeight,  \* direct strategy: window.innerHeight
  baseline,     \* direct strategy: the fallback's baseline
  focused,      \* direct strategy: document.activeElement === msgEl
  kbCell,       \* the --kb custom property as last set, in quarters of a px
  widgetApi,    \* window.MedAssistWidget: 0 while absent, else the number of
                \* the script evaluation that defined it
  scripts,      \* the script tags of the widget evaluated so far
  launchers,    \* the #medassist-launcher containers appended to the body
  viewportMeta  \* the page's viewport meta: absent, the page's own, or the
                \* content ensureViewportMeta wants

normVars == <<payload, result, npc, result2>>

convVars == <<cfg, platform, sendDisabled, msgValue, history, inflight, delayTimers,
              errors, listeners, appended, reqs, calls, fetches, outcome, abortTimers>>

directVars == <<innerHeight, baseline, focused>>

pageVars == <<kbCell, widgetApi, scripts, launchers, viewportMeta>>

latchVars == <<hasVV, latched, lastPx, zeroTimer, graceTimers, kb, intervals, pumpPending, vvPending,
               orientTimers, ev, run, innerHeight, baseline, focused>>

vars == <<payload, result, npc, result2, cfg, platform, sendDisabled, msgValue, history,
          inflight, delayTimers, errors, listeners, appended,
          reqs, calls, fetches, outcome, abortTimers,
          hasVV, latched, lastPx, zeroTimer, graceTimers, kb, intervals, pumpPending, vvPending,
          orientTimers, ev, run, innerHeight, baseline, focused,
          kbCell, widgetApi, scripts, launchers, viewportMeta>>

(***************************************************************************)
(* JavaScript values.  A JSON value is a tagged record; strings are        *)
(* sequences of one-character strings so that concatenation, trimming and  *)
(* case conversion are computed and not assumed.                           *)
(***************************************************************************)
Undef == [t |-> "undef"]
Null == [t |-> "null"]
Bool(b) == [t |-> "bool", v |-> b]
Num(n) == [t |-> "num", v |-> n]
NaN == [t |-> "nan"]
Str(s) == [t |-> "str", v |-> s]
Arr(s) == [t |-> "arr", v |-> s]
Obj(f) == [t |-> "obj", v |-> f]

NoFields == [k \in {} |-> Undef]
EmptyObj == Obj(NoFields)
EmptyArr == Arr(<<>>)
EmptyStr == Str(<<>>)

IsNullish(x) == x.t \in {"undef", "null"}

\* ToBoolean: undefined, null, false, 0, NaN and "" are falsy; every object and
\* array (also the empty ones) is truthy.
Truthy(x) ==
  CASE x.t \in {"undef", "null"} -> FALSE
    [] x.t = "bool" -> x.v
    [] x.t = "num" -> x.v # 0
    [] x.t = "nan" -> FALSE
    [] x.t = "str" -> x.v # <<>>
    [] OTHER -> TRUE

\* a || b
Or(a, b) == IF Truthy(a) THEN a ELSE b

\* o.k for a non-nullish o: an own field of an object, undefined on every
\* other value (none of the names read by the widget is a prototype member).
Get(o, k) == IF o.t = "obj" /\ k \in DOMAIN o.v THEN o.v[k] ELSE Undef

\* o?.k
OptGet(o, k) == IF IsNullish(o) THEN Undef ELSE Get(o, k)

\* o[0] for a non-nullish o
At0(o) ==
  CASE o.t = "arr" -> IF Len(o.v) > 0 THEN o.v[1] ELSE Undef
    [] o.t = "str" -> IF Len(o.v) > 0 THEN Str(<<o.v[1]>>) ELSE Undef
    [] OTHER -> Get(o, "0")

Digit(d) == <<"0", "1", "2", "3", "4", "5", "6", "7", "8", "9">>[d + 1]

RECURSIVE NatChars(_)
NatChars(n) == IF n < 10 THEN <<Digit(n)>> ELSE NatChars(n \div 10) \o <<Digit(n % 10)>>

\* String(x) / x.toString(): the characters of the string form of a value.
\* Inside Array.prototype.join null and undefined become the empty string.
RECURSIVE ToChars(_)
RECURSIVE JoinChars(_, _)
ToChars(x) ==
  CASE x.t = "str" -> x.v
    [] x.t = "num" -> IF x.v < 0 THEN <<"-">> \o NatChars(-x.v) ELSE NatChars(x.v)
    [] x.t = "bool" -> IF x.v THEN <<"t", "r", "u", "e">> ELSE <<"f", "a", "l", "s", "e">>
    [] x.t = "null" -> <<"n", "u", "l", "l">>
    [] x.t = "undef" -> <<"u", "n", "d", "e", "f", "i", "n", "e", "d">>
    [] x.t = "arr" -> JoinChars(x.v, <<",">>)
    [] OTHER -> <<"[", "o", "b", "j", "e", "c", "t", " ", "O", "b", "j", "e", "c", "t", "]">>

\* items.join(sep)
JoinChars(items, sep) ==
  IF items = <<>> THEN <<>>
  ELSE LET h == IF IsNullish(Head(items)) THEN <<>> ELSE ToChars(Head(items))
       IN IF Len(items) = 1 THEN h ELSE h \o sep \o JoinChars(Tail(items), sep)

WhiteSpace == {" ", "\t", "\n"}

RECURSIVE TrimStart(_)
TrimStart(s) == IF s # <<>> /\ Head(s) \in WhiteSpace THEN TrimStart(Tail(s)) ELSE s

RECURSIVE TrimEnd(_)
TrimEnd(s) ==
  IF s # <<>> /\ s[Len(s)] \in WhiteSpace THEN TrimEnd(SubSeq(s, 1, Len(s) - 1)) ELSE s

\* s.trim()
Trim(s) == TrimEnd(TrimStart(s))

UpperCase == <<"A", "B", "C", "D", "E", "F", "G", "H", "I", "J", "K", "L", "M",
               "N", "O", "P", "Q", "R", "S", "T", "U", "V", "W", "X", "Y", "Z">>
LowerCase == <<"a", "b", "c", "d", "e", "f", "g", "h", "i", "j", "k", "l", "m",
               "n", "o", "p", "q", "r", "s", "t", "u", "v", "w", "x", "y", "z">>

LowerChar(c) ==
  IF \E i \in DOMAIN UpperCase : UpperCase[i] = c
  THEN LowerCase[CHOOSE i \in DOMAIN UpperCase : UpperCase[i] = c]
  ELSE c

\* s.toLowerCase()
ToLowerCase(s) == [i \in DOMAIN s |-> LowerChar(s[i])]

(***************************************************************************)
(* The response normalizer.                                                *)
(***************************************************************************)
Throw == [t |-> "throw"]

\* parts.map(p => p?.text || '')
MapPartText(parts) == [i \in DOMAIN parts |-> Or(OptGet(parts[i], "text"), EmptyStr)]

\* extractGeminiText(obj): the trimmed concatenation of the part texts of the
\* first candidate; parts.map throws a TypeError when parts is a truthy value
\* that is not an array.
ExtractFirstPartOnly(obj) ==
  LET cand == Or(At0(Or(OptGet(obj, "candidates"), EmptyArr)), EmptyObj)
      parts == Or(OptGet(OptGet(cand, "content"), "parts"), EmptyArr)
  IN IF parts.t # "arr" THEN Throw
     ELSE IF parts.v = <<>> THEN EmptyStr
     ELSE Str(Trim(JoinChars(<<MapPartText(parts.v)[1]>>, <<>>)))

extractGeminiText(obj) ==
  LET cand == Or(At0(Or(OptGet(obj, "candidates"), EmptyArr)), EmptyObj)
      parts == Or(OptGet(OptGet(cand, "content"), "parts"), EmptyArr)
  IN IF parts.t # "arr" THEN Throw
     ELSE Str(Trim(JoinChars(MapPartText(parts.v), <<>>)))

\* if (Array.isArray(data)) data = data[0] || {};
UnwrapNever(data) == data

Unwrap(data) == IF data.t = "arr" THEN Or(At0(data), EmptyObj) ELSE data

\* const body = data.data || data;
BodyAlwaysPayload(data) == data

Body(data) == Or(Get(data, "data"), data)

\* body.answer || body.response || body.message || body.output_text
\*   || body.text || body.content || ''
DirectMessageOrError(body) ==
  Or(Get(body, "answer"), Or(Get(body, "response"), Or(Get(body, "message"),
  Or(Get(body, "output_text"), Or(Get(body, "text"), Or(Get(body, "content"),
  Or(Get(body, "error"), EmptyStr)))))))

DirectMessageResponseFirst(body) ==
  Or(Get(body, "response"), Or(Get(body, "answer"), Or(Get(body, "message"),
  Or(Get(body, "output_text"), Or(Get(body, "text"), Or(Get(body, "content"),
  EmptyStr))))))

DirectMessage(body) ==
  Or(Get(body, "answer"), Or(Get(body, "response"), Or(Get(body, "message"),
  Or(Get(body, "output_text"), Or(Get(body, "text"), Or(Get(body, "content"),
  EmptyStr))))))

\* The message after the two envelope fall-backs (Throw when one throws).
Message(data, body) ==
  LET m0 == DirectMessage(body)
      raw == Get(body, "raw")
      m1 == IF ~Truthy(m0) /\ Truthy(raw) THEN extractGeminiText(raw) ELSE m0
  IN IF m1 = Throw THEN Throw
     ELSE IF ~Truthy(m1) /\ Truthy(Get(data, "candidates"))
          THEN extractGeminiText(data)
          ELSE m1

\* normalize(data) with the wall clock reading `now` (reading data.status of
\* null or undefined throws a TypeError).
NormalizeStampsRaw(data0, now) ==
  LET data == Unwrap(data0)
  IN IF IsNullish(data) THEN Throw
     ELSE
       LET status == Or(Get(data, "status"), Str(<<"s", "u", "c", "c", "e", "s", "s">>))
           body == Body(data)
           message == Message(data, body)
           confidence ==
             Str(ToLowerCase(ToChars(
               Or(Get(body, "confidence"), Or(Get(body, "confidence_level"), EmptyStr)))))
           sources == Or(Get(body, "sources"), Or(Get(body, "refs"), EmptyArr))
           meta == [clinic_url |-> Get(body, "clinic_url"),
                    clinic_phone |-> Get(body, "clinic_phone"),
                    timestamp |-> Or(Get(body, "now"), now)]
       IN IF message = Throw THEN Throw
          ELSE [t |-> "reply", status |-> status, message |-> message,
                confidence |-> confidence, sources |-> sources, meta |-> meta,
                error |-> Or(Get(body, "error"), Null),
                raw |-> Or(Get(body, "raw"), now)]

normalize(data0, now) ==
  LET data == Unwrap(data0)
  IN IF IsNullish(data) THEN Throw
     ELSE
       LET status == Or(Get(data, "status"), Str(<<"s", "u", "c", "c", "e", "s", "s">>))
           body == Body(data)
           message == Message(data, body)
           confidence ==
             Str(ToLowerCase(ToChars(
               Or(Get(body, "confidence"), Or(Get(body, "confidence_level"), EmptyStr)))))
           sources == Or(Get(body, "sources"), Or(Get(body, "refs"), EmptyArr))
           meta == [clinic_url |-> Get(body, "clinic_url"),
                    clinic_phone |-> Get(body, "clinic_phone"),
                    timestamp |-> Or(Get(body, "now"), now)]
       IN IF message = Throw THEN Throw
          ELSE [t |-> "reply", status |-> status, message |-> message,
                confidence |-> confidence, sources |-> sources, meta |-> meta,
                error |-> Or(Get(body, "error"), Null),
                raw |-> Or(Get(body, "raw"), Null)]

(***************************************************************************)
(* Backend payloads the normalizer is run on: JSON scalars, reply objects  *)
(* with one field or with two fields, wrapped in `data` or not, and        *)
(* arrays of them.  Field values include the malformed ones (null, wrong   *)
(* type, empty).                                                           *)
(***************************************************************************)
MaxParts == 2

S_a == Str(<<"a">>)
S_b == Str(<<"b">>)
S_hi == Str(<<"h", "i">>)
S_x == Str(<<"x">>)
S_bad == Str(<<"b", "a", "d">>)
S_success == Str(<<"s", "u", "c", "c", "e", "s", "s">>)
S_error == Str(<<"e", "r", "r", "o", "r">>)

\* One element of content.parts.
PartVals ==
  { Obj([text |-> S_a]), Obj([text |-> S_b]),
    Obj([text |-> Str(<<" ", "c", " ">>)]), Obj([text |-> Num(5)]),
    EmptyObj, Null }

SeqsUpTo(S, n) == UNION {[1..k -> S] : k \in 0..n}

EnvelopeOf(parts) == Obj([candidates |-> Arr(<<Obj([content |-> Obj([parts |-> parts])])>>)])

\* Well-formed generative-model envelopes, and malformed ones.
Envelopes ==
  {EnvelopeOf(Arr(ps)) : ps \in SeqsUpTo(PartVals, MaxParts)}
  \cup {EnvelopeOf(Null), EnvelopeOf(Num(5)), EnvelopeOf(S_a), EnvelopeOf(EmptyObj)}
  \cup { Obj([candidates |-> Null]), Obj([candidates |-> EmptyArr]),
         Obj([candidates |-> S_x]), Obj([candidates |-> Arr(<<Null>>)]),
         Obj([candidates |-> Arr(<<Obj([content |-> Null])>>)]) }

CoreEnvelopes ==
  { EnvelopeOf(Arr(<<Obj([text |-> S_a]), Obj([text |-> S_b])>>)),
    EnvelopeOf(Arr(<<Obj([text |-> Str(<<" ", "c", " ">>)])>>)),
    EnvelopeOf(EmptyArr), EnvelopeOf(Num(5)) }

MessageFields == {"answer", "response", "message", "output_text", "text", "content"}

BodyFields ==
  MessageFields \cup {"raw", "candidates", "confidence", "confidence_level",
                      "sources", "refs", "error", "now", "clinic_url"}

\* The values a body field takes when it is the only field of its object.
FieldVals(k) ==
  CASE k = "answer" -> {S_hi, EmptyStr, Num(5), Num(0), Null, Bool(TRUE), EmptyObj}
    [] k = "response" -> {Str(<<"r">>), EmptyStr}
    [] k = "message" -> {S_x, EmptyStr}
    [] k = "output_text" -> {Str(<<"o">>), EmptyStr}
    [] k = "text" -> {Str(<<"t">>), EmptyStr}
    [] k = "content" -> {Str(<<"c">>), EmptyStr}
    [] k = "raw" -> Envelopes \cup {Num(5), Null, S_x, EmptyObj}
    [] k = "candidates" -> {Get(e, "candidates") : e \in Envelopes}
    [] k = "confidence" -> {Str(<<"H", "i", "g", "h">>), EmptyStr, Num(5), Bool(TRUE),
                            Arr(<<S_a, Null, Num(5)>>), EmptyObj}
    [] k = "confidence_level" -> {Str(<<"L", "O", "W">>)}
    [] k = "sources" -> {Arr(<<S_a, S_b>>), Arr(<<S_b, S_a>>), EmptyArr, S_x, Num(5)}
    [] k = "refs" -> {Arr(<<S_x>>)}
    [] k = "error" -> {S_bad, EmptyStr, Num(5), Null, EmptyObj}
    [] k = "now" -> {Str(<<"t", "0">>)}
    [] k = "clinic_url" -> {Str(<<"u">>)}
    [] k = "status" -> {S_success, S_error, EmptyStr, Num(1), Num(0), Null}
    [] OTHER -> {}

\* The values a field takes beside a second field.
CoreVals(k) ==
  CASE k = "answer" -> {S_hi, EmptyStr}
    [] k = "raw" -> CoreEnvelopes
    [] k = "candidates" -> {Get(e, "candidates") : e \in CoreEnvelopes}
    [] k = "confidence" -> {Str(<<"H", "i", "g", "h">>)}
    [] k = "sources" -> {Arr(<<S_a, S_b>>)}
    [] k = "error" -> {S_bad}
    [] k = "status" -> {S_success, S_error, EmptyStr}
    [] OTHER -> FieldVals(k)

Objs1(fields) == {Obj(k :> v) : <<k, v>> \in UNION {{k} \X FieldVals(k) : k \in fields}}

Objs2(fields) ==
  LET opts == UNION {{k} \X CoreVals(k) : k \in fields}
  IN {Obj((a[1] :> a[2]) @@ (b[1] :> b[2])) : <<a, b>> \in {q \in opts \X opts : q[1][1] # q[2][1]}}

\* Unwrapped reply bodies.
Bodies == {EmptyObj} \cup Objs1(BodyFields) \cup Objs2(BodyFields)

Scalars == {Null, Bool(FALSE), Bool(TRUE), Num(0), Num(5), EmptyStr, S_x}

\* The values of a top-level `data` field.
DataVals == Objs1(BodyFields) \cup {EmptyObj, EmptyArr} \cup Scalars

CoreDataVals ==
  { Obj([answer |-> S_hi]), Obj([error |-> S_bad]), Obj([message |-> EmptyStr]),
    EmptyObj, Null, EmptyStr, Num(0) }
  \cup {Obj([raw |-> e]) : e \in CoreEnvelopes}
  \cup {Obj([candidates |-> Get(e, "candidates")]) : e \in CoreEnvelopes}

\* Top-level objects: a body, a status and/or a data wrapper.
TopObjects ==
  Bodies
  \cup {Obj("status" :> v) : v \in FieldVals("status")}
  \cup {Obj("data" :> d) : d \in DataVals}
  \cup {Obj(("data" :> d) @@ o.v) : d \in CoreDataVals,
          o \in {Obj(k :> v) : <<k, v>> \in
                   UNION {{k} \X CoreVals(k) : k \in BodyFields \cup {"status"}}}}
  \cup {Obj(("status" :> s) @@ o.v) : s \in CoreVals("status"),
          o \in {Obj(k :> v) : <<k, v>> \in UNION {{k} \X CoreVals(k) : k \in BodyFields}}}

\* What an array payload holds first.
FirstElems ==
  Objs1(MessageFields \cup {"error", "candidates"})
  \cup {Obj("status" :> v) : v \in CoreVals("status")}
  \cup {Obj("data" :> d) : d \in CoreDataVals}
  \cup Scalars \cup {EmptyObj, EmptyArr, Arr(<<Obj([message |-> S_x])>>)}

ArrayPayloads ==
  {EmptyArr} \cup {Arr(<<e>>) : e \in FirstElems}
  \cup {Arr(<<e, Obj([message |-> S_hi])>>) : e \in {Obj([message |-> S_x]), Null, EmptyObj}}

Payloads == TopObjects \cup Scalars \cup ArrayPayloads

\* Readings of the wall clock (new Date().toISOString()).
Clock == {Str(<<"T", "1">>), Str(<<"T", "2">>)}

NoResult == [t |-> "none"]

NormInit == /\ payload \in Payloads
            /\ result = NoResult
            /\ result2 = NoResult
            /\ npc = "ready"

\* no script of the widget has been evaluated
WidgetIdle ==
  /\ widgetApi = 0 /\ scripts = <<>> /\ launchers = <<>> /\ viewportMeta = "absent"

\* nothing has set the --kb property
CellIdle == kbCell = Undef

PageIdle == WidgetIdle /\ CellIdle

NormIdle == /\ payload = Null
            /\ result = NoResult
            /\ result2 = NoResult
            /\ npc = "idle"

\* const n = normalize(data)
NormalizeCall ==
  /\ npc = "ready"
  /\ \E now \in Clock : result' = normalize(payload, now)
  /\ npc' = "done"
  /\ UNCHANGED <<payload, result2>>
  /\ UNCHANGED convVars
  /\ UNCHANGED latchVars
  /\ UNCHANGED pageVars

\* a second call normalize(data) on the same payload, at another time
NormalizeAgain ==
  /\ npc = "done" /\ result2 = NoResult
  /\ \E now \in Clock : result2' = normalize(payload, now)
  /\ UNCHANGED <<payload, result, npc>>
  /\ UNCHANGED convVars
  /\ UNCHANGED latchVars
  /\ UNCHANGED pageVars

(***************************************************************************)
(* The conversation: composer, send control, history and request round     *)
(* trips.  The handlers are functions of the widget state st; an action    *)
(* applies one handler, with every call it makes, to the current state.    *)
(***************************************************************************)
MaxTurns == 20
MaxErrors == 2
MaxListeners == 2
HISTORY_KEEP == 16
HISTORY_SEND == 8

Max(a, b) == IF a > b THEN a ELSE b
Min(a, b) == IF a < b THEN a ELSE b

\* s.slice(-k)
SliceLast(s, k) == SubSeq(s, Max(Len(s) - k, 0) + 1, Len(s))

\* What the visitor types.
Texts == {<<"h", "i">>, <<" ">>}

\* What the backend answers in real mode.
Responses ==
  { Obj([data |-> Obj([answer |-> S_hi])]),
    Obj([status |-> S_error, error |-> S_bad]),
    EmptyObj, Null }

Variants == {"script", "part_000", "prosper_pharmacy"}

Cur == [disabled |-> sendDisabled, msg |-> msgValue, history |-> history,
        inflight |-> inflight, delays |-> delayTimers, errors |-> errors,
        listeners |-> listeners, appended |-> appended,
        reqs |-> reqs, calls |-> calls, fetches |-> fetches, outcome |-> outcome,
        timers |-> abortTimers]

Becomes(st) ==
  /\ sendDisabled' = st.disabled
  /\ msgValue' = st.msg
  /\ history' = st.history
  /\ inflight' = st.inflight
  /\ delayTimers' = st.delays
  /\ errors' = st.errors
  /\ listeners' = st.listeners
  /\ appended' = st.appended
  /\ reqs' = st.reqs
  /\ calls' = st.calls
  /\ fetches' = st.fetches
  /\ outcome' = st.outcome
  /\ abortTimers' = st.timers

\* setBusy(on): sendEl.disabled = on
SetBusyTypingOnly(st, on) == st

setBusy(st, on) == [st EXCEPT !.disabled = on]

showError(st) == [st EXCEPT !.errors = @ + 1]

\* history.push(turn)
Push(st, role, content) ==
  LET turn == [role |-> role, content |-> content]
  IN [st EXCEPT !.history = Append(@, turn), !.appended = Append(@, turn)]

\* if (history.length > 16) history = history.slice(-16);
Truncate(st) ==
  IF Len(st.history) > HISTORY_KEEP
  THEN [st EXCEPT !.history = SliceLast(@, HISTORY_KEEP)]
  ELSE st

\* { message: text, history: history.slice(-8), id }
PayloadWholeHistory(st, text) == [message |-> text, history |-> st.history, id |-> cfg.id]

Payload(st, text) ==
  [message |-> text, history |-> SliceLast(st.history, HISTORY_SEND), id |-> cfg.id]

\* cfg.timeout (DEFAULTS.timeout), in ms
TIMEOUT_MS == 60000

\* HTTP statuses the backend answers with; res.ok
Statuses == {200, 500}

Ok(status) == status >= 200 /\ status <= 299

\* The promise callApi returns: `value` is what it resolved with or the
\* error object it rejected with; `cause` and `http` record what the
\* transport did (the HTTP status, the abort timer, a network failure, a
\* body that is not JSON).
NoCall == [kind |-> "none", value |-> Undef, cause |-> "none", http |-> 0]

PendingCall == [kind |-> "pending", value |-> Undef, cause |-> "none", http |-> 0]

ErrorObj(name, message) == Obj([name |-> Str(name), message |-> Str(message)])

N_Error == <<"E", "r", "r", "o", "r">>

N_AbortError == <<"A", "b", "o", "r", "t", "E", "r", "r", "o", "r">>

\* `Server error ${res.status}`
ServerErrorMessage(status) == <<"S", "e", "r", "v", "e", "r", " ", "e", "r", "r", "o", "r", " ">> \o NatChars(status)

\* `Request timed out after ${Math.round(cfg.timeout / 1000)}s.`
TimedOutMessage == <<"R", "e", "q", "u", "e", "s", "t", " ", "t", "i", "m", "e", "d", " ", "o", "u", "t", " ", "a", "f", "t", "e", "r", " ">> \o NatChars((TIMEOUT_MS + 500) \div 1000) \o <<"s", ".">>

\* what fetch() rejects with when its signal is aborted, and when the
\* network fails; what res.json() rejects with on a body that is not JSON
AbortError == ErrorObj(N_AbortError, <<"T", "h", "e", " ", "u", "s", "e", "r", " ", "a", "b", "o", "r", "t", "e", "d", " ", "a", " ", "r", "e", "q", "u", "e", "s", "t", ".">>)

FetchTypeError == ErrorObj(<<"T", "y", "p", "e", "E", "r", "r", "o", "r">>, <<"F", "a", "i", "l", "e", "d", " ", "t", "o", " ", "f", "e", "t", "c", "h">>)

JsonSyntaxError == ErrorObj(<<"S", "y", "n", "t", "a", "x", "E", "r", "r", "o", "r">>, <<"U", "n", "e", "x", "p", "e", "c", "t", "e", "d", " ", "t", "o", "k", "e", "n">>)

\* callApi(url, body) up to its first await: in mock mode a 500 ms timer is
\* armed; otherwise the abort timer is armed and fetch() is called.
CallApiMockFetches(st, body) ==
  [st EXCEPT !.inflight = Append(@, body),
             !.reqs = Append(@, [phase |-> "fetch", timer |-> TRUE, elapsed |-> FALSE, http |-> 0]),
             !.calls = @ + 1, !.fetches = @ + 1, !.outcome = PendingCall,
             !.timers = @ + 1]

callApi(st, body) ==
  IF cfg.mock
  THEN [st EXCEPT !.inflight = Append(@, body),
                  !.reqs = Append(@, [phase |-> "mock", timer |-> FALSE, elapsed |-> FALSE, http |-> 0]),
                  !.calls = @ + 1, !.outcome = PendingCall]
  ELSE [st EXCEPT !.inflight = Append(@, body),
                  !.reqs = Append(@, [phase |-> "fetch", timer |-> TRUE, elapsed |-> FALSE, http |-> 0]),
                  !.calls = @ + 1, !.fetches = @ + 1, !.outcome = PendingCall,
                  !.timers = @ + 1]

\* The pointerdown listener script.js and part_000 add on iOS inside send().
RegisterListener(st) ==
  IF platform.variant \in {"script", "part_000"} /\ platform.ios
  THEN [st EXCEPT !.listeners = Min(@ + 1, MaxListeners)]
  ELSE st

\* addMessage(text, 'user'); history.push(...); truncate; clear the composer;
\* setBusy(true)
BeginTurn(st, text) ==
  setBusy([Truncate(Push(st, "user", Str(text))) EXCEPT !.msg = <<>>], TRUE)

\* send() up to its await
SendChecksConfigLate(st) ==
  IF st.disabled THEN st
  ELSE LET text == Trim(st.msg)
       IN IF text = <<>> THEN st
          ELSE LET busy == BeginTurn(RegisterListener(st), text)
               IN IF ~cfg.endpoint \/ ~cfg.id THEN showError(busy)
                  ELSE callApi(busy, Payload(busy, text))

SendNoTrim(st) ==
  IF st.disabled THEN st
  ELSE LET text == st.msg
       IN IF text = <<>> THEN st
          ELSE IF ~cfg.endpoint \/ ~cfg.id THEN showError(st)
          ELSE LET busy == BeginTurn(RegisterListener(st), text)
               IN callApi(busy, Payload(busy, text))

send(st) ==
  IF st.disabled THEN st
  ELSE LET text == Trim(st.msg)
       IN IF text = <<>> THEN st
          ELSE IF ~cfg.endpoint \/ ~cfg.id THEN showError(st)
          ELSE LET busy == BeginTurn(RegisterListener(st), text)
               IN callApi(busy, Payload(busy, text))

\* __medassistDelayOnce(ms) up to its setTimeout
DelayOnceSync(st) ==
  IF st.disabled THEN st
  ELSE LET text == Trim(st.msg)
       IN IF text = <<>> \/ ~cfg.endpoint \/ ~cfg.id THEN showError(st)
          ELSE [BeginTurn(st, text) EXCEPT !.delays = Append(@, text)]

\* the form's submit handler and the Enter key handler:
\* if (!sendEl.disabled) send()
SubmitHandler(st) == IF st.disabled THEN st ELSE send(st)

\* one pointerdown/touchstart listener of the send button
PointerListener(st) == IF st.disabled THEN st ELSE SubmitHandler(st)

RECURSIVE Dispatch(_, _)
Dispatch(st, n) == IF n = 0 THEN st ELSE Dispatch(PointerListener(st), n - 1)

\* after the await: const n = normalize(data); accept or show the error;
\* finally setBusy(false)
OnResolvedAnyReply(st0, data, now) ==
  LET st == [st0 EXCEPT !.outcome = [kind |-> "resolved", value |-> data,
                                     cause |-> "none", http |-> 0]]
      n == normalize(data, now)
      after ==
        IF n = Throw THEN showError(st)
        ELSE Push(st, "assistant", n.message)
  IN setBusy(after, FALSE)

OnResolved(st0, data, now) ==
  LET st == [st0 EXCEPT !.outcome = [kind |-> "resolved", value |-> data,
                                     cause |-> "none", http |-> 0]]
      n == normalize(data, now)
      after ==
        IF n = Throw THEN showError(st)
        ELSE IF n.status # S_success \/ ~Truthy(n.message) THEN showError(st)
        ELSE Push(st, "assistant", n.message)
  IN setBusy(after, FALSE)

\* callApi's catch after its clearTimeout(t): if (e.name === 'AbortError') e.message =
\* `Request timed out ...`; throw e.  The message of a DOMException is an
\* accessor without a setter, so the assignment changes it only where the
\* error object is a plain one (writable).
CatchRewritesEveryError(e, writable) == ErrorObj(N_AbortError, TimedOutMessage)

CatchInCallApi(e, writable) ==
  IF Get(e, "name") = Str(N_AbortError) /\ writable
  THEN ErrorObj(N_AbortError, TimedOutMessage)
  ELSE e

\* send's catch (err) { showError(err.message || 'Network error.') }
\* finally { setBusy(false) }
OnRejectedRetries(st, err, cause, http) ==
  LET failed == [st EXCEPT !.outcome = [kind |-> "rejected", value |-> err,
                                        cause |-> cause, http |-> http]]
  IN IF st.errors = 0
     THEN callApi(showError(failed), Payload(failed, <<>>))
     ELSE setBusy(showError(failed), FALSE)

OnRejected(st, err, cause, http) ==
  setBusy(showError([st EXCEPT !.outcome = [kind |-> "rejected", value |-> err,
                                            cause |-> cause, http |-> http]]), FALSE)

\* clearTimeout(t) in the call at the head of the queue: its abort timer
\* is removed when it is still pending
ClearTimerNever(st) == st

ClearTimer(st) ==
  IF st.reqs[1].timer
  THEN [st EXCEPT !.reqs[1].timer = FALSE, !.timers = @ - 1]
  ELSE st

\* the abort timer of the call at the head of the queue fires: it is no
\* longer pending
FireTimer(st) == [st EXCEPT !.reqs[1].timer = FALSE, !.timers = @ - 1]

\* the request at the head of the queue leaves it
Settle(st) == [st EXCEPT !.inflight = Tail(@), !.reqs = Tail(@)]

\* await fetch(...) returns a response: clearTimeout(t);
\* if (!res.ok) throw new Error(`Server error ${res.status}`)
OnHeadersIgnoresStatus(st, status) ==
  [ClearTimer(st) EXCEPT !.reqs[1].phase = "body", !.reqs[1].http = status]

OnHeaders(st, status) ==
  IF Ok(status)
  THEN [ClearTimer(st) EXCEPT !.reqs[1].phase = "body", !.reqs[1].http = status]
  ELSE OnRejected(Settle(ClearTimer(ClearTimer(st))),
                  CatchInCallApi(ErrorObj(N_Error, ServerErrorMessage(status)), TRUE),
                  "http", status)

MockReply(body) ==
  Arr(<<Obj([answer |-> Str(<<"[", "M", "O", "C", "K", "]", " ">> \o body.message)])>>)

\* The bounds of the model: the visitor begins no further turn once MaxTurns
\* turns have been pushed or MaxErrors error rows are in the stream.
Allowed(st) == st # Cur => (Len(appended) < MaxTurns /\ errors < MaxErrors)

HandlerStep(st) ==
  /\ Allowed(st)
  /\ Becomes(st)
  /\ UNCHANGED <<cfg, platform>>

ConvInit ==
  /\ cfg \in [endpoint : BOOLEAN, id : BOOLEAN, mock : BOOLEAN]
  /\ platform \in [variant : Variants, ios : BOOLEAN]
  /\ sendDisabled = FALSE
  /\ msgValue = <<>>
  /\ history = <<>>
  /\ inflight = <<>>
  /\ delayTimers = <<>>
  /\ errors = 0
  /\ listeners = IF platform.variant = "prosper_pharmacy" THEN 1 ELSE 0
  /\ appended = <<>>
  /\ reqs = <<>>
  /\ calls = 0
  /\ fetches = 0
  /\ outcome = NoCall
  /\ abortTimers = 0

ConvIdle ==
  /\ cfg = [endpoint |-> TRUE, id |-> TRUE, mock |-> FALSE]
  /\ sendDisabled = FALSE
  /\ msgValue = <<>>
  /\ history = <<>>
  /\ inflight = <<>>
  /\ delayTimers = <<>>
  /\ errors = 0
  /\ listeners = 0
  /\ appended = <<>>
  /\ reqs = <<>>
  /\ calls = 0
  /\ fetches = 0
  /\ outcome = NoCall
  /\ abortTimers = 0

\* the visitor edits the composer
TypeText ==
  /\ \E t \in Texts : msgValue' = t
  /\ UNCHANGED <<sendDisabled, history, inflight, delayTimers, errors, listeners, appended,
                 reqs, calls, fetches, outcome, abortTimers>>
  /\ UNCHANGED <<cfg, platform>>

\* a form submit event or an Enter key press
Submit == HandlerStep(SubmitHandler(Cur))

\* a pointerdown (or touchstart) on the send button: every registered
\* listener runs
PointerDown ==
  /\ listeners > 0
  /\ HandlerStep(Dispatch(Cur, listeners))

\* a call of window.__medassistDelayOnce
DelayOnce == HandlerStep(DelayOnceSync(Cur))

\* the timer of __medassistDelayOnce fires: the request is built and issued
DelayFire ==
  /\ delayTimers # <<>>
  /\ LET st == [Cur EXCEPT !.delays = Tail(@)]
     IN Becomes(callApi(st, Payload(st, Head(delayTimers))))
  /\ UNCHANGED <<cfg, platform>>

\* mock mode: the 500 ms timer fires and the promise resolves
MockTimerFire ==
  /\ reqs # <<>> /\ Head(reqs).phase = "mock"
  /\ \E now \in Clock : Becomes(OnResolved(Settle(Cur), MockReply(Head(inflight)), now))
  /\ UNCHANGED <<cfg, platform>>

\* the response's status line and headers arrive: fetch() resolves
Headers ==
  /\ reqs # <<>> /\ Head(reqs).phase = "fetch"
  /\ \E status \in Statuses : Becomes(OnHeaders(Cur, status))
  /\ UNCHANGED <<cfg, platform>>

\* the response body arrives and parses: res.json() resolves
Resolve ==
  /\ reqs # <<>> /\ Head(reqs).phase = "body"
  /\ \E data \in Responses, now \in Clock : Becomes(OnResolved(Settle(Cur), data, now))
  /\ UNCHANGED <<cfg, platform>>

\* the network fails (fetch() or res.json() rejects), or the body is not
\* JSON (res.json() rejects)
Reject ==
  /\ reqs # <<>> /\ Head(reqs).phase \in {"fetch", "body"}
  /\ \/ Becomes(OnRejected(Settle(ClearTimer(Cur)),
                            CatchInCallApi(FetchTypeError, TRUE), "network", 0))
     \/ /\ Head(reqs).phase = "body"
        /\ Becomes(OnRejected(Settle(ClearTimer(Cur)),
                              CatchInCallApi(JsonSyntaxError, TRUE), "json", 0))
  /\ UNCHANGED <<cfg, platform>>

\* cfg.timeout ms after the request was issued, with the abort timer still
\* armed: ac.abort(), and fetch() rejects with an AbortError
Timeout ==
  /\ reqs # <<>> /\ Head(reqs).timer
  /\ \E writable \in BOOLEAN :
       Becomes(OnRejected(Settle(ClearTimer(FireTimer(Cur))),
                          CatchInCallApi(AbortError, writable), "timer", 0))
  /\ UNCHANGED <<cfg, platform>>

\* cfg.timeout ms after the request was issued, with the abort timer
\* already cleared: nothing runs
DeadlinePasses ==
  /\ reqs # <<>> /\ ~Head(reqs).timer /\ Head(reqs).phase = "body" /\ ~Head(reqs).elapsed
  /\ Becomes([Cur EXCEPT !.reqs[1].elapsed = TRUE])
  /\ UNCHANGED <<cfg, platform>>

Next ==
  \/ (TypeText /\ UNCHANGED <<pageVars, normVars, latchVars>>)
  \/ (Submit /\ UNCHANGED <<pageVars, normVars, latchVars>>)
  \/ (PointerDown /\ UNCHANGED <<pageVars, normVars, latchVars>>)
  \/ (DelayOnce /\ UNCHANGED <<pageVars, normVars, latchVars>>)
  \/ (DelayFire /\ UNCHANGED <<pageVars, normVars, latchVars>>)
  \/ (MockTimerFire /\ UNCHANGED <<pageVars, normVars, latchVars>>)
  \/ (Headers /\ UNCHANGED <<pageVars, normVars, latchVars>>)
  \/ (Resolve /\ UNCHANGED <<pageVars, normVars, latchVars>>)
  \/ (Reject /\ UNCHANGED <<pageVars, normVars, latchVars>>)
  \/ (Timeout /\ UNCHANGED <<pageVars, normVars, latchVars>>)
  \/ (DeadlinePasses /\ UNCHANGED <<pageVars, normVars, latchVars>>)



(***************************************************************************)
(* The latched keyboard-occlusion tracker of the iOS branch.               *)
(***************************************************************************)
OPEN_THRESH == 60
CLOSE_THRESH == 30
TICKS == 8
MaxIntervals == 2
MaxOrientTimers == 1

\* The viewport geometries the browser reports: window.innerHeight,
\* VV.height and VV.offsetTop.
InnerHeights == {800}
VvHeights == {810, 780, 755, 710}
OffsetTops == {0, 20}

\* writeKb(px): Math.max(0, Math.round(px || 0)), on whole pixels
writeKb(px) == Max(0, px)

\* occludedPx()
OccludedPxNoOffset(ih, vh, top) == IF ~hasVV THEN 0 ELSE Max(0, ih - vh)

occludedPx(ih, vh, top) == IF ~hasVV THEN 0 ELSE Max(0, ih - vh - top)

Tracker == [latched |-> latched, lastPx |-> lastPx, zeroTimer |-> zeroTimer, kb |-> kb,
            timers |-> graceTimers]

Fresh == [latched |-> FALSE, lastPx |-> 0, zeroTimer |-> FALSE, kb |-> 0, timers |-> <<>>]

\* if (zeroTimer) { clearTimeout(zeroTimer); zeroTimer = null; }: the timer
\* the handle refers to, the one armed last, is removed
ClearGrace(tr) ==
  IF tr.zeroTimer /\ tr.timers # <<>>
  THEN SubSeq(tr.timers, 1, Len(tr.timers) - 1)
  ELSE tr.timers

\* if (!zeroTimer) zeroTimer = setTimeout(..., CLOSE_GRACE_MS), run by a
\* sample below CLOSE_THRESH: a timer that is pending stays as it is
ArmGraceAlways(tr) == Append([i \in DOMAIN tr.timers |-> TRUE], FALSE)

ArmGraceRestarts(tr) == Append(ClearGrace(tr), FALSE)

ArmGrace(tr) ==
  IF tr.zeroTimer
  THEN [i \in DOMAIN tr.timers |-> TRUE]
  ELSE Append([i \in DOMAIN tr.timers |-> TRUE], FALSE)

\* the grace timer that fires is no longer pending
FiredGrace(tr) == IF tr.timers = <<>> THEN <<>> ELSE Tail(tr.timers)

\* kbLatchUpdate(_from) with the occlusion occ it sampled
KbLatchNoHold(tr, occ) ==
  IF occ >= OPEN_THRESH
  THEN [latched |-> TRUE, lastPx |-> occ, zeroTimer |-> FALSE, kb |-> writeKb(occ),
        timers |-> ClearGrace(tr)]
  ELSE [latched |-> FALSE, lastPx |-> 0, zeroTimer |-> FALSE, kb |-> writeKb(0),
        timers |-> ClearGrace(tr)]

KbLatchUnlatchedPassThrough(tr, occ) ==
  IF occ >= OPEN_THRESH
  THEN [latched |-> TRUE, lastPx |-> occ, zeroTimer |-> FALSE, kb |-> writeKb(occ),
        timers |-> ClearGrace(tr)]
  ELSE IF tr.latched /\ occ >= CLOSE_THRESH
  THEN LET px == IF occ > 0 THEN Max(tr.lastPx, occ) ELSE tr.lastPx
       IN [tr EXCEPT !.lastPx = px, !.kb = writeKb(px)]
  ELSE IF tr.latched /\ occ < CLOSE_THRESH
  THEN [tr EXCEPT !.zeroTimer = TRUE, !.timers = ArmGrace(tr), !.kb = writeKb(tr.lastPx)]
  ELSE [tr EXCEPT !.kb = writeKb(occ)]

KbLatchKeepsLarger(tr, occ) ==
  IF occ >= OPEN_THRESH
  THEN [latched |-> TRUE, lastPx |-> Max(tr.lastPx, occ), zeroTimer |-> FALSE,
        kb |-> writeKb(Max(tr.lastPx, occ)), timers |-> ClearGrace(tr)]
  ELSE IF tr.latched /\ occ >= CLOSE_THRESH
  THEN LET px == IF occ > 0 THEN Max(tr.lastPx, occ) ELSE tr.lastPx
       IN [tr EXCEPT !.lastPx = px, !.kb = writeKb(px)]
  ELSE IF tr.latched /\ occ < CLOSE_THRESH
  THEN [tr EXCEPT !.zeroTimer = TRUE, !.timers = ArmGrace(tr), !.kb = writeKb(tr.lastPx)]
  ELSE [tr EXCEPT !.kb = writeKb(0)]

KbLatchFollowsSample(tr, occ) ==
  IF occ >= OPEN_THRESH
  THEN [latched |-> TRUE, lastPx |-> occ, zeroTimer |-> FALSE, kb |-> writeKb(occ),
        timers |-> ClearGrace(tr)]
  ELSE IF tr.latched /\ occ >= CLOSE_THRESH
  THEN [tr EXCEPT !.lastPx = occ, !.kb = writeKb(occ)]
  ELSE IF tr.latched /\ occ < CLOSE_THRESH
  THEN [tr EXCEPT !.zeroTimer = TRUE, !.timers = ArmGrace(tr), !.kb = writeKb(tr.lastPx)]
  ELSE [tr EXCEPT !.kb = writeKb(0)]

kbLatchUpdate(tr, occ) ==
  IF occ >= OPEN_THRESH
  THEN [latched |-> TRUE, lastPx |-> occ, zeroTimer |-> FALSE, kb |-> writeKb(occ),
        timers |-> ClearGrace(tr)]
  ELSE IF tr.latched /\ occ >= CLOSE_THRESH
  THEN LET px == IF occ > 0 THEN Max(tr.lastPx, occ) ELSE tr.lastPx
       IN [tr EXCEPT !.lastPx = px, !.kb = writeKb(px)]
  ELSE IF tr.latched /\ occ < CLOSE_THRESH
  THEN [tr EXCEPT !.zeroTimer = TRUE, !.timers = ArmGrace(tr), !.kb = writeKb(tr.lastPx)]
  ELSE [tr EXCEPT !.kb = writeKb(0)]

\* the grace timer's callback
OnZeroTimerKeepsPx(tr) ==
  [latched |-> FALSE, lastPx |-> tr.lastPx, zeroTimer |-> FALSE, kb |-> writeKb(0),
   timers |-> FiredGrace(tr)]

OnZeroTimer(tr) ==
  [latched |-> FALSE, lastPx |-> 0, zeroTimer |-> FALSE, kb |-> writeKb(0),
   timers |-> FiredGrace(tr)]

\* kbOnBlur()
KbOnBlurKeepsTimer(tr) ==
  [latched |-> FALSE, lastPx |-> 0, zeroTimer |-> tr.zeroTimer, kb |-> writeKb(0),
   timers |-> tr.timers]

kbOnBlur(tr) ==
  [latched |-> FALSE, lastPx |-> 0, zeroTimer |-> FALSE, kb |-> writeKb(0),
   timers |-> ClearGrace(tr)]

TrackerBecomes(tr) ==
  /\ latched' = tr.latched
  /\ lastPx' = tr.lastPx
  /\ zeroTimer' = tr.zeroTimer
  /\ graceTimers' = tr.timers
  /\ kb' = tr.kb

\* The sample sequence of section 8 and the recording of a run against it:
\* the samples taken, every value the tracker published (by a sample or by
\* the grace timer), and after how many samples the grace timer fired.
Scenario == <<0, 70, 70, 20, 20, 20>>

RunOff == [on |-> FALSE, samples |-> <<>>, pubs |-> <<>>, graceAfter |-> 0]

IsPrefix(a, b) == Len(a) <= Len(b) /\ SubSeq(b, 1, Len(a)) = a

Recorded(occ, px) ==
  IF run.on /\ IsPrefix(Append(run.samples, occ), Scenario)
  THEN [run EXCEPT !.samples = Append(@, occ), !.pubs = Append(@, px)]
  ELSE RunOff

\* one run of kbLatchUpdate on the geometry the browser reports now
Sampled ==
  \E ih \in InnerHeights, vh \in VvHeights, top \in OffsetTops :
    LET occ == occludedPx(ih, vh, top)
        tr == kbLatchUpdate(Tracker, occ)
    IN /\ TrackerBecomes(tr)
       /\ ev' = [kind |-> "sample", occ |-> occ]
       /\ run' = Recorded(occ, tr.kb)

NoIntervals == [k \in 1..TICKS |-> 0]

IntervalCount == intervals[1] + intervals[2] + intervals[3] + intervals[4]
                 + intervals[5] + intervals[6] + intervals[7] + intervals[8]

\* the direct strategy is not wired
DirectIdle == innerHeight = 0 /\ baseline = 0 /\ focused = FALSE

\* Construction on iOS: with a visual viewport, kbLatchUpdate('vv-init') has
\* run once on the fresh tracker.
LatchInit ==
  /\ DirectIdle
  /\ platform \in [variant : {"script", "prosper_pharmacy"}, ios : {TRUE}]
  /\ hasVV \in BOOLEAN
  /\ intervals = NoIntervals
  /\ pumpPending = 0
  /\ vvPending = 0
  /\ orientTimers = 0
  /\ IF hasVV
     THEN \E ih \in InnerHeights, vh \in VvHeights, top \in OffsetTops :
            LET occ == occludedPx(ih, vh, top)
                tr == kbLatchUpdate(Fresh, occ)
            IN /\ latched = tr.latched /\ lastPx = tr.lastPx
               /\ zeroTimer = tr.zeroTimer /\ kb = tr.kb
               /\ graceTimers = tr.timers
               /\ ev = [kind |-> "sample", occ |-> occ]
               /\ run = IF IsPrefix(<<occ>>, Scenario)
                        THEN [on |-> TRUE, samples |-> <<occ>>, pubs |-> <<tr.kb>>,
                              graceAfter |-> 0]
                        ELSE RunOff
     ELSE /\ latched = FALSE /\ lastPx = 0 /\ zeroTimer = FALSE /\ graceTimers = <<>> /\ kb = 0
          /\ ev = [kind |-> "none", occ |-> 0]
          /\ run = [on |-> TRUE, samples |-> <<>>, pubs |-> <<>>, graceAfter |-> 0]

LatchIdle ==
  /\ DirectIdle
  /\ hasVV = FALSE
  /\ latched = FALSE /\ lastPx = 0 /\ zeroTimer = FALSE /\ graceTimers = <<>> /\ kb = 0
  /\ intervals = NoIntervals
  /\ pumpPending = 0
  /\ vvPending = 0
  /\ orientTimers = 0
  /\ ev = [kind |-> "none", occ |-> 0]
  /\ run = RunOff

\* clearTimeout(t) on the timer a debounced handler armed last: it is
\* removed when it is still pending
clearTimeout(pending) == IF pending > 0 THEN pending - 1 ELSE 0

\* one call of the function debounce(fn, ms) returns, given the timers of
\* this handler that are pending: clearTimeout(t); t = setTimeout(...)
DebounceNoClear(pending) == pending + 1

debounce(pending) == clearTimeout(pending) + 1

\* a resize or scroll event of the visual viewport: each debounced handler
\* restarts its timer
ViewportEvent ==
  /\ hasVV
  /\ pumpPending' = debounce(pumpPending)
  /\ vvPending' = debounce(vvPending)
  /\ ev' = [kind |-> "viewport", occ |-> 0]
  /\ UNCHANGED <<latched, lastPx, zeroTimer, graceTimers, kb, intervals, orientTimers, run, hasVV>>

\* the pump's debounce timer fires: kbLatchUpdate('vv')
PumpFire ==
  /\ pumpPending > 0
  /\ pumpPending' = pumpPending - 1
  /\ Sampled
  /\ UNCHANGED <<intervals, vvPending, orientTimers, hasVV>>

\* the second debounced viewport handler fires: in script.js it calls
\* kbLatchUpdate('vv'); in prosper_pharmacy.js it writes the raw occlusion
\* to --kb itself
SecondViewportFire ==
  /\ vvPending > 0
  /\ vvPending' = vvPending - 1
  /\ IF platform.variant = "script"
     THEN Sampled
     ELSE \E ih \in InnerHeights, vh \in VvHeights, top \in OffsetTops :
            /\ kb' = Max(0, ih - vh - top)
            /\ ev' = [kind |-> "raw", occ |-> Max(0, ih - vh - top)]
            /\ UNCHANGED <<latched, lastPx, zeroTimer, graceTimers, run>>
  /\ UNCHANGED <<intervals, pumpPending, orientTimers, hasVV>>

\* input or touchmove on the composer, transitionend on the panel
DirectSample ==
  /\ Sampled
  /\ UNCHANGED <<intervals, pumpPending, vvPending, orientTimers, hasVV>>

\* orientationchange: a settle timer is armed
OrientationChange ==
  /\ orientTimers < MaxOrientTimers
  /\ orientTimers' = orientTimers + 1
  /\ ev' = [kind |-> "orientation", occ |-> 0]
  /\ UNCHANGED <<latched, lastPx, zeroTimer, graceTimers, kb, intervals, pumpPending, vvPending, run, hasVV>>

\* a settle timer fires: kbLatchUpdate('orientation')
OrientationFire ==
  /\ orientTimers > 0
  /\ orientTimers' = orientTimers - 1
  /\ Sampled
  /\ UNCHANGED <<intervals, pumpPending, vvPending, hasVV>>

\* kbOnFocus(): one sample now, and an interval of TICKS further samples
KbOnFocusSevenTicks ==
  /\ IntervalCount < MaxIntervals
  /\ Sampled
  /\ intervals' = [intervals EXCEPT ![TICKS - 1] = @ + 1]
  /\ UNCHANGED <<pumpPending, vvPending, orientTimers, hasVV>>

KbOnFocus ==
  /\ IntervalCount < MaxIntervals
  /\ Sampled
  /\ intervals' = [intervals EXCEPT ![TICKS] = @ + 1]
  /\ UNCHANGED <<pumpPending, vvPending, orientTimers, hasVV>>

\* one tick of a focus interval with k ticks left; the last tick clears it
IntervalTick ==
  /\ \E k \in 1..TICKS :
       /\ intervals[k] > 0
       /\ intervals' = IF k = 1 THEN [intervals EXCEPT ![1] = @ - 1]
                       ELSE [intervals EXCEPT ![k] = @ - 1, ![k - 1] = @ + 1]
  /\ Sampled
  /\ UNCHANGED <<pumpPending, vvPending, orientTimers, hasVV>>

\* the composer loses focus
KbOnBlur ==
  /\ TrackerBecomes(kbOnBlur(Tracker))
  /\ ev' = [kind |-> "blur", occ |-> 0]
  /\ run' = RunOff
  /\ UNCHANGED <<intervals, pumpPending, vvPending, orientTimers, hasVV>>

\* the grace timer fires
ZeroTimerFire ==
  /\ graceTimers # <<>>
  /\ TrackerBecomes(OnZeroTimer(Tracker))
  /\ ev' = [kind |-> "grace", occ |-> 0]
  /\ run' = IF run.on
            THEN [run EXCEPT !.pubs = Append(@, OnZeroTimer(Tracker).kb),
                             !.graceAfter = Len(run.samples)]
            ELSE RunOff
  /\ UNCHANGED <<intervals, pumpPending, vvPending, orientTimers, hasVV>>

NextLatch ==
  \/ (ViewportEvent /\ UNCHANGED <<pageVars, normVars, convVars, directVars>>)
  \/ (PumpFire /\ UNCHANGED <<pageVars, normVars, convVars, directVars>>)
  \/ (SecondViewportFire /\ UNCHANGED <<pageVars, normVars, convVars, directVars>>)
  \/ (DirectSample /\ UNCHANGED <<pageVars, normVars, convVars, directVars>>)
  \/ (OrientationChange /\ UNCHANGED <<pageVars, normVars, convVars, directVars>>)
  \/ (OrientationFire /\ UNCHANGED <<pageVars, normVars, convVars, directVars>>)
  \/ (KbOnFocus /\ UNCHANGED <<pageVars, normVars, convVars, directVars>>)
  \/ (IntervalTick /\ UNCHANGED <<pageVars, normVars, convVars, directVars>>)
  \/ (KbOnBlur /\ UNCHANGED <<pageVars, normVars, convVars, directVars>>)
  \/ (ZeroTimerFire /\ UNCHANGED <<pageVars, normVars, convVars, directVars>>)

InitLatch == LatchInit /\ NormIdle /\ ConvIdle /\ PageIdle

SpecLatch == InitLatch /\ [][NextLatch]_vars

\* the ticks all running focus intervals still have to take
TicksLeft ==
  intervals[1] + 2 * intervals[2] + 3 * intervals[3] + 4 * intervals[4]
  + 5 * intervals[5] + 6 * intervals[6] + 7 * intervals[7] + 8 * intervals[8]

\* The tracker with the scheduling of the event loop: an interval that has
\* not been cleared keeps ticking, and a debounce timer that stays armed
\* fires.  The weak fairness of IntervalTick, PumpFire and
\* SecondViewportFire is written out: each is enabled exactly when its
\* interval or timer exists, and it is the only action that uses up a tick
\* or a timer.
SpecLatchFair ==
  /\ InitLatch /\ [][NextLatch]_vars
  /\ ([]<>(IntervalCount = 0) \/ []<><<TicksLeft' < TicksLeft>>_vars)
  /\ ([]<>(pumpPending = 0) \/ []<><<pumpPending' < pumpPending>>_vars)
  /\ ([]<>(vvPending = 0) \/ []<><<vvPending' < vvPending>>_vars)

(***************************************************************************)
(* The direct keyboard strategy of the Android branch: the occlusion is    *)
(* mirrored to --kb, from the visual viewport when there is one and from   *)
(* the window's height against a baseline when there is none.              *)
(***************************************************************************)
\* the heights the window takes (the on-screen keyboard and rotation
\* resize it)
WindowHeights == {800, 500, 300}

\* one run of () => writeKb(occludedPx()) on the geometry the viewport
\* reports now
MirrorOcclusion ==
  \E vh \in VvHeights, top \in OffsetTops :
    /\ kb' = writeKb(occludedPx(innerHeight, vh, top))
    /\ ev' = [kind |-> "direct", occ |-> occludedPx(innerHeight, vh, top),
              vh |-> vh, top |-> top]

\* Construction on Android: with a visual viewport the occlusion is written
\* once; without one the baseline is the window's height.
DirectInit ==
  /\ platform \in [variant : {"script", "prosper_pharmacy"}, ios : {FALSE}]
  /\ hasVV \in BOOLEAN
  /\ innerHeight \in WindowHeights
  /\ focused = FALSE
  /\ latched = FALSE /\ lastPx = 0 /\ zeroTimer = FALSE /\ graceTimers = <<>>
  /\ intervals = NoIntervals
  /\ run = RunOff
  /\ pumpPending = 0
  /\ vvPending = 0
  /\ orientTimers = 0
  /\ IF hasVV
     THEN /\ baseline = 0
          /\ \E vh \in VvHeights, top \in OffsetTops :
               /\ kb = writeKb(occludedPx(innerHeight, vh, top))
               /\ ev = [kind |-> "direct", occ |-> occludedPx(innerHeight, vh, top),
                        vh |-> vh, top |-> top]
     ELSE /\ baseline = innerHeight
          /\ kb = 0
          /\ ev = [kind |-> "none", occ |-> 0]

\* the debounce timer of upd (script.js) / onViewportChange
\* (prosper_pharmacy.js) fires
UpdFire ==
  /\ pumpPending > 0
  /\ pumpPending' = pumpPending - 1
  /\ MirrorOcclusion
  /\ UNCHANGED <<vvPending, orientTimers, hasVV, innerHeight, baseline, focused>>

\* the second debounced viewport handler fires: in script.js its Android
\* branch calls writeKb(occludedPx()); in prosper_pharmacy.js it writes the
\* occlusion to --kb itself
SecondDirectFire ==
  /\ vvPending > 0
  /\ vvPending' = vvPending - 1
  /\ IF platform.variant = "script"
     THEN MirrorOcclusion
     ELSE \E vh \in VvHeights, top \in OffsetTops :
            /\ kb' = Max(0, innerHeight - vh - top)
            /\ ev' = [kind |-> "raw", occ |-> Max(0, innerHeight - vh - top),
                      vh |-> vh, top |-> top]
  /\ UNCHANGED <<pumpPending, orientTimers, hasVV, innerHeight, baseline, focused>>

\* the window is resized; without a visual viewport the fallback's resize
\* listener runs
WindowResizeAnyFocus ==
  /\ \E h \in WindowHeights \ {innerHeight} : innerHeight' = h
  /\ kb' = IF ~hasVV THEN writeKb(Max(0, baseline - innerHeight')) ELSE kb
  /\ ev' = [kind |-> "resize", occ |-> 0]
  /\ UNCHANGED <<pumpPending, vvPending, orientTimers, hasVV, baseline, focused>>

WindowResize ==
  /\ \E h \in WindowHeights \ {innerHeight} : innerHeight' = h
  /\ kb' = IF ~hasVV /\ focused THEN writeKb(Max(0, baseline - innerHeight')) ELSE kb
  /\ ev' = [kind |-> "resize", occ |-> 0]
  /\ UNCHANGED <<pumpPending, vvPending, orientTimers, hasVV, baseline, focused>>

\* the composer gains focus; the fallback's focus listener records the
\* baseline
ComposerFocus ==
  /\ focused' = TRUE
  /\ baseline' = IF hasVV THEN baseline ELSE innerHeight
  /\ ev' = [kind |-> "focus", occ |-> 0]
  /\ UNCHANGED <<kb, pumpPending, vvPending, orientTimers, hasVV, innerHeight>>

\* a blur event on the composer: () => writeKb(0).  The composer stays the
\* document's active element when it is the window that lost focus.
ComposerBlur ==
  /\ focused
  /\ focused' \in BOOLEAN
  /\ kb' = writeKb(0)
  /\ ev' = [kind |-> "blur", occ |-> 0]
  /\ UNCHANGED <<pumpPending, vvPending, orientTimers, hasVV, innerHeight, baseline>>

\* an orientation settle timer fires: with a visual viewport
\* writeKb(occludedPx()), else writeKb(0)
OrientationSettle ==
  /\ orientTimers > 0
  /\ orientTimers' = orientTimers - 1
  /\ IF hasVV
     THEN MirrorOcclusion
     ELSE kb' = writeKb(0) /\ ev' = [kind |-> "settle", occ |-> 0]
  /\ UNCHANGED <<pumpPending, vvPending, hasVV, innerHeight, baseline, focused>>

\* the panel is closed: if (IS_ANDROID) writeKb(0)
PanelClose ==
  /\ kb' = writeKb(0)
  /\ ev' = [kind |-> "close", occ |-> 0]
  /\ UNCHANGED <<pumpPending, vvPending, orientTimers, hasVV, innerHeight, baseline, focused>>

TrackerIdle == UNCHANGED <<latched, lastPx, zeroTimer, graceTimers, intervals, run>>

NextDirect ==
  \/ (ViewportEvent /\ UNCHANGED <<pageVars, normVars, convVars, directVars>>)
  \/ (UpdFire /\ TrackerIdle /\ UNCHANGED <<pageVars, normVars, convVars>>)
  \/ (SecondDirectFire /\ TrackerIdle /\ UNCHANGED <<pageVars, normVars, convVars>>)
  \/ (WindowResize /\ TrackerIdle /\ UNCHANGED <<pageVars, normVars, convVars>>)
  \/ (ComposerFocus /\ TrackerIdle /\ UNCHANGED <<pageVars, normVars, convVars>>)
  \/ (ComposerBlur /\ TrackerIdle /\ UNCHANGED <<pageVars, normVars, convVars>>)
  \/ (OrientationChange /\ UNCHANGED <<pageVars, normVars, convVars, directVars>>)
  \/ (OrientationSettle /\ TrackerIdle /\ UNCHANGED <<pageVars, normVars, convVars>>)
  \/ (PanelClose /\ TrackerIdle /\ UNCHANGED <<pageVars, normVars, convVars>>)

InitDirect == DirectInit /\ NormIdle /\ ConvIdle /\ PageIdle

SpecDirect == InitDirect /\ [][NextDirect]_vars

Init == ConvInit /\ NormIdle /\ LatchIdle /\ PageIdle

Spec == Init /\ [][Next]_vars

MockPending == reqs # <<>> /\ Head(reqs).phase = "mock"

\* The conversation with the scheduling the event loop guarantees: a timer
\* that is armed fires (the delay of __medassistDelayOnce, the abort timer,
\* the mock delay).  Nothing obliges the network to deliver.  The mock
\* delay's weak fairness is written out: MockTimerFire is enabled exactly
\* when MockPending holds.
SpecFair ==
  /\ Init /\ [][Next]_vars
  /\ WF_vars(DelayFire /\ UNCHANGED <<pageVars, normVars, latchVars>>)
  /\ WF_vars(Timeout /\ UNCHANGED <<pageVars, normVars, latchVars>>)
  /\ ([]<>(~MockPending)
        \/ []<><<MockTimerFire /\ UNCHANGED <<pageVars, normVars, latchVars>> >>_vars)

NextNorm == NormalizeCall \/ NormalizeAgain

InitNorm ==
  /\ NormInit /\ ConvIdle /\ LatchIdle /\ PageIdle
  /\ platform = [variant |-> "script", ios |-> FALSE]

SpecNorm == InitNorm /\ [][NextNorm]_vars

(***************************************************************************)
(* Loading the script and calling the public API.  A script tag carries    *)
(* data-auto-init ("1" or not) and data-options: none, a JSON text naming  *)
(* a position, or a text JSON.parse rejects.                               *)
(***************************************************************************)
MaxLoads == 3
MaxInits == 3

OptionKinds == {"none", "top-left", "bogus", "invalid"}

ScriptTags == [auto : BOOLEAN, options : OptionKinds]

\* positions[position] || positions['bottom-right'], the default parameter
\* standing in for a missing position
Position(options) ==
  IF options = "top-left" THEN "top-left" ELSE "bottom-right"

\* ensureViewportMeta(): the viewport meta exists with the wanted content
ensureViewportMeta == "wanted"

\* createWidgetRoot(cfg.position): one more container in the body
createWidgetRoot(roots, options) == Append(roots, Position(options))

\* MedAssistWidget.init(options)
InitCall ==
  /\ widgetApi # 0
  /\ Len(launchers) < MaxInits
  /\ \E options \in OptionKinds \ {"invalid"} :
       launchers' = createWidgetRoot(launchers, options)
  /\ viewportMeta' = ensureViewportMeta
  /\ UNCHANGED <<widgetApi, scripts, kbCell>>

\* the browser evaluates a script tag of the widget
ScriptLoad(tag) ==
  /\ scripts' = Append(scripts, tag)
  /\ IF widgetApi # 0
     THEN UNCHANGED <<widgetApi, viewportMeta, launchers>>
     ELSE /\ widgetApi' = Len(scripts) + 1
          /\ viewportMeta' = ensureViewportMeta
          /\ launchers' = IF tag.auto /\ tag.options # "invalid"
                          THEN createWidgetRoot(launchers, tag.options)
                          ELSE launchers

ScriptEvaluated ==
  /\ Len(scripts) < MaxLoads
  /\ \E tag \in ScriptTags : ScriptLoad(tag)
  /\ UNCHANGED kbCell

PageInit ==
  /\ platform \in [variant : Variants, ios : {FALSE}]
  /\ widgetApi = 0 /\ scripts = <<>> /\ launchers = <<>>
  /\ viewportMeta \in {"absent", "page"}
  /\ CellIdle

NextPage ==
  \/ (ScriptEvaluated /\ UNCHANGED <<normVars, convVars, latchVars>>)
  \/ (InitCall /\ UNCHANGED <<normVars, convVars, latchVars>>)

InitPage == PageInit /\ NormIdle /\ ConvIdle /\ LatchIdle

SpecPage == InitPage /\ [][NextPage]_vars

(***************************************************************************)
(* What reaches the --kb property.  The viewport reports fractional CSS    *)
(* pixels; here every length is a whole number of quarters of a pixel.     *)
(***************************************************************************)
Px(n) == 4 * n

\* Math.round: the nearest whole pixel, a half going up
MathRound(q) == Px((q + 2) \div 4)

\* Math.max(0, Math.round(px || 0)) on any value handed to writeKb
WriteKbCell(px) ==
  LET v == Or(px, Num(0))
  IN IF v.t = "num" THEN Num(Max(0, MathRound(v.v))) ELSE NaN

\* window.innerHeight, VV.height and VV.offsetTop, in quarters
InnerHeightQ == Px(800)
VvHeightsQ == {Px(810), Px(800), Px(800) - 1, Px(800) - 2, Px(800) - 3,
               Px(740) - 2, Px(660) - 3, Px(640)}
OffsetTopsQ == {0, 1, Px(20)}

\* Math.max(0, window.innerHeight - VV.height - (VV.offsetTop || 0))
OccludedQ(vh, top) == Max(0, InnerHeightQ - vh - top)

\* what the handlers of either strategy hand to writeKb: an occlusion, the
\* remembered occlusion, 0
Handed == {Num(OccludedQ(vh, top)) : vh \in VvHeightsQ, top \in OffsetTopsQ}

\* the other values the guards of writeKb are written for
Guarded == {Num(-1), Num(-2), Num(-3), Num(Px(-10)), NaN, Undef, Null}

\* a handler of the latched or of the direct strategy calls writeKb(px)
WriteKbCall ==
  /\ platform.variant \in {"script", "prosper_pharmacy"}
  /\ \E px \in Handed \cup Guarded :
       /\ kbCell' = WriteKbCell(px)
       /\ ev' = [kind |-> IF platform.ios THEN "latched" ELSE "direct", px |-> px]
  /\ UNCHANGED <<hasVV, latched, lastPx, zeroTimer, graceTimers, kb, intervals, pumpPending,
                 vvPending, orientTimers, run, innerHeight, baseline, focused>>
  /\ UNCHANGED <<widgetApi, scripts, launchers, viewportMeta>>

\* the debounced onViewportChange of prosper_pharmacy.js and part_000 sets
\* the property itself: occluded + 'px'
RawViewportWrite ==
  /\ platform.variant \in {"prosper_pharmacy", "part_000"}
  /\ hasVV
  /\ \E vh \in VvHeightsQ, top \in OffsetTopsQ :
       /\ kbCell' = Num(OccludedQ(vh, top))
       /\ ev' = [kind |-> "raw", px |-> Num(OccludedQ(vh, top))]
  /\ UNCHANGED <<hasVV, latched, lastPx, zeroTimer, graceTimers, kb, intervals, pumpPending,
                 vvPending, orientTimers, run, innerHeight, baseline, focused>>
  /\ UNCHANGED <<widgetApi, scripts, launchers, viewportMeta>>

PublishInit ==
  /\ DirectIdle
  /\ platform \in [variant : Variants, ios : BOOLEAN]
  /\ hasVV \in BOOLEAN
  /\ latched = FALSE /\ lastPx = 0 /\ zeroTimer = FALSE /\ graceTimers = <<>> /\ kb = 0
  /\ intervals = NoIntervals
  /\ pumpPending = 0
  /\ vvPending = 0
  /\ orientTimers = 0
  /\ ev = [kind |-> "none", px |-> Undef]
  /\ run = RunOff
  /\ widgetApi = 1 /\ scripts = <<[auto |-> TRUE, options |-> "none"]>>
  /\ launchers = <<"bottom-right">> /\ viewportMeta = ensureViewportMeta
  /\ CellIdle

NextPublish ==
  \/ (WriteKbCall /\ UNCHANGED <<normVars, convVars>>)
  \/ (RawViewportWrite /\ UNCHANGED <<normVars, convVars>>)

InitPublish == PublishInit /\ NormIdle /\ ConvIdle

SpecPublish == InitPublish /\ [][NextPublish]_vars

(***************************************************************************)
(* Normalizer claims.  The expected values below are written from the      *)
(* specification's wording, field by field, and compared with the record   *)
(* the model of the code produced.                                         *)
(***************************************************************************)
Returned == npc = "done" /\ result.t = "reply"

HasField(o, k) == o.t = "obj" /\ k \in DOMAIN o.v

\* The field k of o, undefined when o has no such field or is no object.
FieldOf(o, k) == IF HasField(o, k) THEN o.v[k] ELSE Undef

MessageOrder == <<"answer", "response", "message", "output_text", "text", "content">>

NonEmptyDirect(b) == {i \in DOMAIN MessageOrder : Truthy(FieldOf(b, MessageOrder[i]))}

FirstDirect(b) ==
  FieldOf(b, MessageOrder[CHOOSE i \in NonEmptyDirect(b) : \A j \in NonEmptyDirect(b) : i <= j])

\* The reply fields of `result` are those of the object b.
ReadsReplyFrom(b) ==
  /\ result.error = (IF Truthy(FieldOf(b, "error")) THEN FieldOf(b, "error") ELSE Null)
  /\ result.raw = (IF Truthy(FieldOf(b, "raw")) THEN FieldOf(b, "raw") ELSE Null)
  /\ result.sources =
       (IF Truthy(FieldOf(b, "sources")) THEN FieldOf(b, "sources")
        ELSE IF Truthy(FieldOf(b, "refs")) THEN FieldOf(b, "refs") ELSE EmptyArr)
  /\ result.meta.clinic_url = FieldOf(b, "clinic_url")
  /\ NonEmptyDirect(b) # {} => result.message = FirstDirect(b)

\* The array unwrapping of section 4.1 step 1, as the code performs it: a
\* missing or falsy first element is replaced by the empty object.
FirstOrEmpty(p) ==
  IF p.t # "arr" THEN p
  ELSE IF Len(p.v) > 0 /\ Truthy(p.v[1]) THEN p.v[1] ELSE EmptyObj

\* The body of section 4.1 step 3 with "present" read as truthy.
TruthyBodyOf(d) == IF Truthy(FieldOf(d, "data")) THEN FieldOf(d, "data") ELSE d

\* C6: normalize never throws, whatever JSON-compatible payload it is given.
C6_NeverThrows == npc = "done" => result # Throw

\* C7: every record normalize returns is well-formed: message, status and
\* confidence are strings, sources is a sequence, error is a string or null.
C7_WellFormedReply ==
  Returned =>
    /\ result.message.t = "str"
    /\ result.status.t = "str"
    /\ result.confidence.t = "str"
    /\ result.sources.t = "arr"
    /\ result.error.t \in {"str", "null"}

\* A field is present when the object has it with a value other than null.
Present(o, k) == HasField(o, k) /\ o.v[k] # Null

\* C8 as stated: the reply fields are read from the data field whenever it
\* is present, else from the payload; status is the status field whenever
\* it is present, else "success".
C8_PresentDataIsBody ==
  (Returned /\ payload.t = "obj") =>
    /\ ReadsReplyFrom(IF Present(payload, "data") THEN payload.v["data"] ELSE payload)
    /\ result.status = (IF Present(payload, "status") THEN payload.v["status"] ELSE S_success)

\* C8 amended: the reply fields are read from the data field when it is
\* present and truthy (not null, false, 0 or ""), else from the payload
\* itself; status is the top-level status field when that is truthy, else
\* "success"; {data:{answer:"hi"}} gives message "hi", status "success".
C8_TruthyDataIsBody ==
  (Returned /\ payload.t = "obj") =>
    /\ ReadsReplyFrom(TruthyBodyOf(payload))
    /\ result.status =
         (IF Truthy(FieldOf(payload, "status")) THEN payload.v["status"] ELSE S_success)
    /\ payload = Obj([data |-> Obj([answer |-> S_hi])]) =>
         result.message = S_hi /\ result.status = S_success

\* C8 witness: the wrapped example {data:{answer:"hi"}} has been normalized,
\* and so has an unwrapped payload carrying a status of its own.
C8_Witness ==
  /\ Returned
  /\ payload = Obj([data |-> Obj([answer |-> S_hi])])
  /\ result.message = S_hi
  /\ result.status = S_success

\* C9 as stated: for a sequence the result equals normalize of its first
\* element (of the empty object when the sequence is empty), wherever
\* normalize of that element returns.
C9_EqualsNormalizeOfFirst ==
  (npc = "done" /\ payload.t = "arr") =>
    \A now \in Clock :
      LET first == IF Len(payload.v) > 0 THEN payload.v[1] ELSE EmptyObj
      IN (result.t = "reply" /\ result.meta.timestamp \in {now, Str(<<"t", "0">>)}
          /\ normalize(first, now) # Throw)
         => result = normalize(first, now)

\* C9 amended: for a sequence the result equals normalize of its first
\* element when that element is truthy and not itself a sequence, and
\* normalize of the empty object otherwise (empty sequence, falsy first
\* element, or a nested sequence, which is not unwrapped a second time);
\* [{message:"x"}] gives message "x", [] gives message "" and status "success".
C9_UnwrapsOnce ==
  (npc = "done" /\ payload.t = "arr") =>
    /\ \E now \in Clock :
         LET first == IF Len(payload.v) > 0 THEN payload.v[1] ELSE EmptyObj
         IN result = normalize(IF Truthy(first) /\ first.t # "arr" THEN first ELSE EmptyObj, now)
    /\ payload = Arr(<<Obj([message |-> S_x])>>) => result.message = S_x
    /\ payload = EmptyArr => result.message = EmptyStr /\ result.status = S_success

\* C9 witness: the array-wrapped example [{message:"x"}] gave message "x".
C9_Witness ==
  /\ Returned
  /\ payload = Arr(<<Obj([message |-> S_x])>>)
  /\ result.message = S_x

\* The parts of candidates[0].content.parts of an envelope, none when the
\* envelope lacks any level of that path.
PartsOf(e) ==
  LET cs == FieldOf(e, "candidates")
      c == IF cs.t = "arr" /\ Len(cs.v) > 0 THEN cs.v[1] ELSE Undef
      ps == FieldOf(FieldOf(c, "content"), "parts")
  IN IF ps.t = "arr" THEN ps.v ELSE <<>>

\* The texts of the parts, concatenated in order (a part without a text
\* contributes nothing).
RECURSIVE ConcatTexts(_)
ConcatTexts(ps) ==
  IF ps = <<>> THEN <<>>
  ELSE (IF Truthy(FieldOf(Head(ps), "text")) THEN ToChars(FieldOf(Head(ps), "text")) ELSE <<>>)
       \o ConcatTexts(Tail(ps))

NoDirectMessage == NonEmptyDirect(TruthyBodyOf(FirstOrEmpty(payload))) = {}

\* C10 as stated: without a direct message field, the message is the plain
\* concatenation of the part texts, from body.raw first and from the
\* top-level payload when that is still empty.
C10_PlainConcatenation ==
  (Returned /\ NoDirectMessage) =>
    LET d == FirstOrEmpty(payload)
        fromRaw == ConcatTexts(PartsOf(FieldOf(TruthyBodyOf(d), "raw")))
    IN result.message = Str(IF fromRaw # <<>> THEN fromRaw ELSE ConcatTexts(PartsOf(d)))

\* C10 amended: without a direct message field, the message is the
\* concatenation, in order, of the part texts of candidates[0].content.parts
\* with leading and trailing whitespace trimmed, from body.raw first and
\* from the top-level payload when that is still empty; parts a, b give "ab".
C10_TrimmedConcatenation ==
  (Returned /\ NoDirectMessage) =>
    LET d == FirstOrEmpty(payload)
        fromRaw == Trim(ConcatTexts(PartsOf(FieldOf(TruthyBodyOf(d), "raw"))))
    IN result.message = Str(IF fromRaw # <<>> THEN fromRaw ELSE Trim(ConcatTexts(PartsOf(d))))

\* C10 witness: the two-part envelope {candidates:[{content:{parts:[a,b]}}]}
\* gave the message "ab".
C10_Witness ==
  /\ Returned
  /\ payload = EnvelopeOf(Arr(<<Obj([text |-> S_a]), Obj([text |-> S_b])>>))
  /\ result.message = Str(<<"a", "b">>)

(***************************************************************************)
(* Conversation claims.                                                    *)
(***************************************************************************)
Busy == inflight # <<>> \/ delayTimers # <<>>

\* C1: at most one callApi request is in flight per widget instance under
\* any interleaving of submits, Enter presses, pointerdown/touchstart on the
\* send button, __medassistDelayOnce calls and response arrivals; the send
\* control is disabled from before the request is issued until it settles,
\* and no turn is begun and no request issued by a handler that found the
\* control disabled.
C1_SingleRequestInFlight ==
  /\ [](Len(inflight) + Len(delayTimers) <= 1 /\ (Busy => sendDisabled))
  /\ [][ /\ Len(appended') > Len(appended) /\ appended'[Len(appended) + 1].role = "user"
              => ~sendDisabled /\ sendDisabled'
         /\ Len(inflight') > Len(inflight)
              => inflight = <<>> /\ sendDisabled'
                 /\ (sendDisabled => delayTimers # <<>>) ]_vars

\* C1 witness: after two settled round trips a third request is in flight
\* with the send control disabled.
C1_Witness ==
  /\ Len(inflight) = 1
  /\ sendDisabled
  /\ Len(appended) >= 5

\* C4: the turn list is truncated to the most recent 16 turns after every
\* append, by a user submission or by an accepted assistant reply: between
\* handlers it holds at most 16 turns, the most recent ones in order.
C4_TruncatedAfterEveryAppend ==
  /\ Len(history) <= HISTORY_KEEP
  /\ history = SubSeq(appended, Max(Len(appended) - HISTORY_KEEP, 0) + 1, Len(appended))

\* C5: the history of every request payload is exactly the most recent
\* min(8, n) turns, in order, of the n-turn list at the time the request is
\* built.
C5_PayloadHistoryIsLast8 ==
  [][ Len(inflight') > Len(inflight) =>
        LET sent == inflight'[Len(inflight')].history
            n == Len(history')
        IN /\ Len(sent) = Min(HISTORY_SEND, n)
           /\ \A i \in 1..Len(sent) : sent[i] = history'[n - Len(sent) + i] ]_vars

\* C5 witness: a request built from a list of more than 8 turns is in flight
\* and carries 8 turns.
C5_Witness ==
  /\ Len(inflight) = 1
  /\ Len(history) > HISTORY_SEND
  /\ Len(inflight[1].history) = HISTORY_SEND

(***************************************************************************)
(* Claims about the latched tracker (specification SpecLatch).             *)
(***************************************************************************)
LatchTypeOK ==
  /\ latched => lastPx >= OPEN_THRESH
  /\ ~latched => (lastPx = 0 /\ ~zeroTimer)

HeldPubs == <<0, 70, 70, 70, 70, 70>>

\* C2: a sample with occ < CLOSE_THRESH taken while latched publishes lastPx
\* (which is not 0), keeps lastPx and the latch, and leaves a grace timer
\* pending; the grace timer's firing unlatches and publishes 0.  The samples
\* 0, 70, 70, 20, 20, 20, taken before the grace timer fires, publish
\* 0, 70, 70, 70, 70, 70, and the timer's firing then publishes 0.
C2_GraceHold ==
  /\ [][ (latched /\ ev'.kind = "sample" /\ ev'.occ < CLOSE_THRESH)
           => /\ kb' = lastPx /\ kb' > 0
              /\ lastPx' = lastPx /\ latched' /\ zeroTimer' ]_vars
  /\ [][ ev'.kind = "grace"
           => /\ zeroTimer /\ latched
              /\ ~latched' /\ kb' = 0 /\ lastPx' = 0 /\ ~zeroTimer' ]_vars
  /\ [](run.on /\ run.samples = Scenario /\ run.graceAfter = 0
           => run.pubs = HeldPubs /\ latched /\ zeroTimer)
  /\ [](run.on /\ run.samples = Scenario /\ run.graceAfter = Len(Scenario)
           => run.pubs = Append(HeldPubs, 0) /\ ~latched)

C2_Witness ==
  /\ run.on /\ run.samples = Scenario /\ run.graceAfter = Len(Scenario)
  /\ ev.kind = "grace" /\ kb = 0

\* C3: a sample with occ < OPEN_THRESH taken while unlatched publishes 0,
\* leaves the tracker unlatched with lastPx = 0 and no grace timer pending;
\* the tracker becomes latched only by a sample with occ >= OPEN_THRESH.
C3_SmallSampleNeverLatches ==
  /\ [][ (~latched /\ ev'.kind = "sample" /\ ev'.occ < OPEN_THRESH)
           => kb' = 0 /\ ~latched' /\ lastPx' = 0 /\ ~zeroTimer' ]_vars
  /\ [][ (~latched /\ latched')
           => ev'.kind = "sample" /\ ev'.occ >= OPEN_THRESH ]_vars

C3_Witness ==
  /\ ev.kind = "sample" /\ ev.occ > 0 /\ ev.occ < CLOSE_THRESH
  /\ IntervalCount > 0
  /\ ~latched /\ kb = 0 /\ lastPx = 0 /\ ~zeroTimer

(***************************************************************************)
(* Further claims about the normalizer (specification SpecNorm).           *)
(***************************************************************************)
NoMessageField(b) == \A i \in DOMAIN MessageOrder : ~HasField(b, MessageOrder[i])

\* C11 as stated: a body with an error field and no message field gives
\* message "" and error equal to body.error; a body without an error field
\* gives error null.
C11_ErrorFieldCopied ==
  Returned =>
    LET b == TruthyBodyOf(FirstOrEmpty(payload))
    IN /\ (HasField(b, "error") /\ NoMessageField(b))
            => result.message = EmptyStr /\ result.error = FieldOf(b, "error")
       /\ ~HasField(b, "error") => result.error = Null

\* C11 amended: error is body.error when that is truthy and null otherwise
\* (absent or falsy); a body with no message field gives message "" unless
\* body.raw or the payload's candidates supply an envelope.
C11_TruthyErrorOrNull ==
  Returned =>
    LET d == FirstOrEmpty(payload)
        b == TruthyBodyOf(d)
    IN /\ result.error = (IF Truthy(FieldOf(b, "error")) THEN FieldOf(b, "error") ELSE Null)
       /\ (NoMessageField(b) /\ ~Truthy(FieldOf(b, "raw")) /\ ~Truthy(FieldOf(d, "candidates")))
            => result.message = EmptyStr

\* C11 witness: {data:{error:"bad"}} gave message "" and error "bad".
C11_Witness ==
  /\ Returned
  /\ payload = Obj([data |-> Obj([error |-> S_bad])])
  /\ result.message = EmptyStr
  /\ result.error = S_bad

(***************************************************************************)
(* Claims about the transport, callApi (specification Spec).               *)
(***************************************************************************)
MockAnswer(text) == Arr(<<Obj([answer |-> Str(<<"[", "M", "O", "C", "K", "]", " ">> \o text)])>>)

\* C12: in mock mode callApi never calls fetch and never rejects; a call
\* arms one delay and leaves the promise pending; the promise resolves only
\* when that delay fires, with the one-element sequence
\* [{answer: "[MOCK] " + body.message}].
C12_MockResolvesAfterDelay ==
  /\ [](cfg.mock => /\ fetches = 0
                    /\ outcome.kind # "rejected"
                    /\ \A i \in DOMAIN reqs : reqs[i].phase = "mock" /\ ~reqs[i].timer)
  /\ [][ (cfg.mock /\ calls' > calls)
           => Len(reqs') = Len(reqs) + 1 /\ outcome'.kind = "pending" ]_vars
  /\ [][ (cfg.mock /\ outcome' # outcome /\ outcome'.kind = "resolved")
           => /\ reqs # <<>> /\ Head(reqs).phase = "mock"
              /\ reqs' = Tail(reqs)
              /\ outcome'.value = MockAnswer(Head(inflight).message) ]_vars

C12_Witness ==
  /\ cfg.mock /\ calls = 2 /\ fetches = 0
  /\ outcome.kind = "resolved"
  /\ outcome.value = MockAnswer(<<"h", "i">>)
  /\ ~sendDisabled

\* C13: in real mode a response with a non-success HTTP status makes callApi
\* reject with the server error for that status, an Error whose message is
\* "Server error <status>" (500 gives "Server error 500"); the body of such
\* a response is never read or returned, and no reply is appended.
C13_ServerErrorCarriesStatus ==
  /\ [](\A i \in DOMAIN reqs : reqs[i].phase = "body" => Ok(reqs[i].http))
  /\ [](outcome.cause = "http"
          => /\ outcome.kind = "rejected" /\ ~Ok(outcome.http)
             /\ Get(outcome.value, "name") = Str(N_Error)
             /\ Get(outcome.value, "message")
                  = Str(<<"S", "e", "r", "v", "e", "r", " ", "e", "r", "r", "o", "r", " ">> \o NatChars(outcome.http)))
  /\ [][ (outcome' # outcome /\ outcome'.cause = "http")
           => /\ reqs # <<>> /\ Head(reqs).phase = "fetch" /\ reqs' = Tail(reqs)
              /\ history' = history /\ errors' = errors + 1 ]_vars
  /\ [][ (~cfg.mock /\ outcome' # outcome /\ outcome'.kind = "resolved")
           => reqs # <<>> /\ Head(reqs).phase = "body" /\ Ok(Head(reqs).http) ]_vars

C13_Witness ==
  /\ outcome.kind = "rejected" /\ outcome.cause = "http" /\ outcome.http = 500
  /\ Get(outcome.value, "message") = Str(<<"S", "e", "r", "v", "e", "r", " ", "e", "r", "r", "o", "r", " ", "5", "0", "0">>)
  /\ ~sendDisabled /\ errors > 0

\* C14: a real-mode request still in flight when cfg.timeout ms have passed
\* is cancelled by the abort timer, and callApi then rejects with the
\* timeout error, whose message states the duration in seconds ("Request
\* timed out after 60s."); it is not reported as a server or network error.
C14_TimeoutCancelsAndCitesDuration ==
  /\ \A i \in DOMAIN reqs : ~reqs[i].elapsed
  /\ outcome.cause = "timer"
       => /\ outcome.kind = "rejected"
          /\ Get(outcome.value, "message") = Str(<<"R", "e", "q", "u", "e", "s", "t", " ", "t", "i", "m", "e", "d", " ", "o", "u", "t", " ", "a", "f", "t", "e", "r", " ", "6", "0", "s", ".">>)
          /\ Get(outcome.value, "name") \notin {Str(N_Error), Str(<<"T", "y", "p", "e", "E", "r", "r", "o", "r">>)}

\* C15: every send that disables the send control eventually re-enables it,
\* whatever the outcome of its request; and when the control is re-enabled
\* without an assistant turn having been appended, an error row was added.
C15_ControlReenabled ==
  /\ [](sendDisabled => <>(~sendDisabled))
  /\ [][ (sendDisabled /\ ~sendDisabled' /\ appended' = appended)
           => errors' = errors + 1 ]_vars

(***************************************************************************)
(* Claims about the send path (specification Spec).                        *)
(***************************************************************************)
UserTurns(s) == Cardinality({i \in DOMAIN s : s[i].role = "user"})

\* C16: no automatic retry.  Every accepted user submission (a user turn
\* pushed) causes exactly one callApi invocation, at once or when the delay
\* of __medassistDelayOnce fires, and at most one fetch; the settling of a
\* request, whatever its outcome, invokes nothing.
C16_OneCallPerSubmission ==
  /\ [](calls + Len(delayTimers) = UserTurns(appended) /\ fetches <= calls)
  /\ [][ calls' # calls
           => /\ calls' = calls + 1 /\ fetches' <= fetches + 1
              /\ \/ UserTurns(appended') = UserTurns(appended) + 1
                 \/ Len(delayTimers') = Len(delayTimers) - 1 ]_vars
  /\ [][ (outcome' # outcome /\ outcome'.kind \in {"resolved", "rejected"})
           => calls' = calls /\ fetches' = fetches /\ Len(reqs') = Len(reqs) - 1 ]_vars

C16_Witness ==
  /\ outcome.kind = "rejected" /\ errors = 2
  /\ calls = 2 /\ fetches = 2 /\ UserTurns(appended) = 2
  /\ reqs = <<>> /\ ~sendDisabled

\* C17: with the endpoint or the id missing, send on a non-empty composer
\* text (the control enabled) shows one error and changes nothing else: no
\* turn is pushed, the composer text and the enabled control stay, and
\* callApi and fetch are never invoked.
C17_ConfigErrorChangesNothing ==
  (~cfg.endpoint \/ ~cfg.id)
    => /\ (Trim(msgValue) # <<>> /\ ~sendDisabled)
            => send(Cur) = [Cur EXCEPT !.errors = @ + 1]
       /\ calls = 0 /\ fetches = 0 /\ inflight = <<>>
       /\ history = <<>> /\ ~sendDisabled

C17_Witness ==
  /\ ~cfg.endpoint /\ cfg.id
  /\ errors = 1 /\ msgValue = <<"h", "i">>
  /\ history = <<>> /\ ~sendDisabled /\ calls = 0

C19_SingleWriter ==
  /\ ev.kind # "raw"
  /\ latched => kb >= lastPx

\* C20: a sample with occ >= CLOSE_THRESH taken while a grace timer is
\* pending cancels the timer and leaves the tracker latched, so that the
\* tracker neither unlatches nor publishes 0 at that timer's deadline.
C20_CloseSampleCancelsTimer ==
  [][ (zeroTimer /\ ev'.kind = "sample" /\ ev'.occ >= CLOSE_THRESH)
        => latched' /\ ~zeroTimer' ]_vars

(***************************************************************************)
(* The tracker's transitions, one handler at a time.                       *)
(***************************************************************************)
OpenSample == ev.kind = "sample" /\ ev.occ >= OPEN_THRESH

\* C21: whatever the tracker's state, a sample of at least OPEN_THRESH
\* latches it, makes the sample the remembered occlusion (also when the
\* remembered one was larger), leaves no grace timer pending and publishes
\* the sample.
C21_OpenSampleLatches ==
  OpenSample => latched /\ lastPx = ev.occ /\ ~zeroTimer /\ kb = ev.occ

\* an open sample of 70 px taken by a focus interval leaves the tracker
\* latched at 70 px (the run that reaches it may have remembered 90 px)
C21_Witness ==
  /\ OpenSample /\ ev.occ = 70 /\ latched /\ lastPx = 70 /\ kb = 70 /\ ~zeroTimer
  /\ IntervalCount > 0 /\ intervals[TICKS] = 0

MidSample == ev.kind = "sample" /\ ev.occ >= CLOSE_THRESH /\ ev.occ < OPEN_THRESH

\* C22: on a latched tracker a sample in [CLOSE_THRESH, OPEN_THRESH) makes
\* the remembered occlusion the larger of itself and the sample and
\* publishes it: the published value is not lowered, the tracker stays
\* latched.
C22_MidSampleKeepsLatch ==
  [][latched /\ MidSample' =>
       /\ lastPx' = Max(lastPx, ev'.occ) /\ kb' = lastPx'
       /\ kb' >= lastPx /\ latched']_vars

\* a 45 px sample on a latched tracker: 70 px stays published
C22_Witness ==
  /\ MidSample /\ ev.occ = 45 /\ latched /\ lastPx = 70 /\ kb = 70

\* C23: blur resets the tracker whatever its state: no grace timer is left
\* pending, the tracker is unlatched with nothing remembered, and 0 is
\* published; the grace timer's callback runs only for a timer that is
\* pending, so a timer cancelled by blur does not fire.
C23_BlurResets ==
  ev.kind = "blur" =>
    /\ ~zeroTimer /\ ~latched /\ lastPx = 0 /\ kb = 0
    /\ ~ENABLED ZeroTimerFire

\* blur has run on a tracker whose focus interval is still ticking
C23_Witness ==
  /\ ev.kind = "blur" /\ ~latched /\ ~zeroTimer /\ kb = 0 /\ IntervalCount > 0

\* a step that starts an interval
FocusStep == intervals'[TICKS] = intervals[TICKS] + 1

\* C24: a focus samples at once and starts an interval that has exactly
\* TICKS = 8 samples to take, beside the intervals already running; every
\* other change of the intervals is one tick of one interval, which samples
\* once and uses up one of its ticks, and an interval is cleared exactly by
\* the tick that uses up its last one.  Intervals keep ticking, so unless
\* the composer is focused again and again (an interval that has not ticked
\* yet exists again and again), no interval is left running.
C24_FocusIntervalsEnd ==
  /\ [][/\ (FocusStep =>
              /\ ev'.kind = "sample"
              /\ IntervalCount' = IntervalCount + 1
              /\ TicksLeft' = TicksLeft + 8)
        /\ (intervals' # intervals /\ ~FocusStep =>
              /\ ev'.kind = "sample"
              /\ TicksLeft' = TicksLeft - 1
              /\ IntervalCount' = IF intervals'[1] < intervals[1]
                                   THEN IntervalCount - 1 ELSE IntervalCount)]_vars
  /\ ([]<>(intervals[TICKS] > 0) \/ <>[](IntervalCount = 0))

\* two focus intervals overlap: one has taken 5 of its samples, the other 2
C24_Witness ==
  /\ intervals[3] = 1 /\ intervals[6] = 1 /\ IntervalCount = 2
  /\ ev.kind = "sample"

\* C30: each debounced viewport handler has at most one timer pending.  A
\* viewport event runs no handler: it leaves each handler with exactly one
\* timer, the one armed by this event, and the tracker and --kb as they
\* were.  The firing of that timer runs the wrapped handler once and leaves
\* no timer of the handler pending, so a burst of events is followed by one
\* run; and once viewport events stop arriving, both timers have fired.
C30_DebounceTrailingOnce ==
  /\ [][/\ pumpPending' <= 1 /\ vvPending' <= 1
        /\ (ev'.kind = "viewport" =>
              /\ pumpPending' = 1 /\ vvPending' = 1
              /\ UNCHANGED <<latched, lastPx, zeroTimer, graceTimers, kb>>)
        /\ (pumpPending' < pumpPending =>
              pumpPending' = 0 /\ ev'.kind = "sample")
        /\ (vvPending' < vvPending =>
              vvPending' = 0 /\ ev'.kind \in {"sample", "raw"})]_vars
  /\ ([]<>(ev.kind = "viewport") \/ <>[](pumpPending = 0 /\ vvPending = 0))

\* a second viewport event arrived while the pump's timer of the first was
\* pending and after the other handler had run: it re-armed both
C30_Witness ==
  /\ ev.kind = "viewport" /\ pumpPending = 1 /\ vvPending = 1
  /\ platform.variant = "prosper_pharmacy" /\ kb = 25 /\ ~latched

ArmedCalls == {i \in DOMAIN reqs : reqs[i].timer}

\* C27: every pending abort timer is the timer of a call that has neither
\* resolved nor rejected: a call that left callApi (by a reply, an HTTP
\* error, a network failure, a body that does not parse, or its own abort)
\* left no timer behind, mock calls arm none, and with no timer pending the
\* abort callback cannot run.
C27_TimerClearedOnExit ==
  /\ abortTimers = Cardinality(ArmedCalls)
  /\ (cfg.mock => abortTimers = 0)
  /\ (outcome.kind \in {"resolved", "rejected"} /\ reqs = <<>> => abortTimers = 0)
  /\ (abortTimers = 0 => ~ENABLED Timeout)

\* fetch() rejected with a network failure while the abort timer was armed:
\* the call has rejected and no timer is pending
C27_Witness ==
  /\ ~cfg.mock /\ outcome.kind = "rejected" /\ outcome.cause = "network"
  /\ outcome.http = 0 /\ reqs = <<>> /\ abortTimers = 0 /\ fetches = 1

\* C28: when the network fails in real mode (fetch() or the reading of the
\* body rejects, with no HTTP error status and no abort by the timer),
\* callApi rejects with that very error, its name and message untouched;
\* the call does not resolve, and send shows an error row.
C28_NetworkFailureRejects ==
  outcome.cause = "network" =>
    /\ ~cfg.mock
    /\ outcome.kind = "rejected"
    /\ Get(outcome.value, "name") = Str(<<"T", "y", "p", "e", "E", "r", "r", "o", "r">>)
    /\ Get(outcome.value, "message")
         = Str(<<"F", "a", "i", "l", "e", "d", " ", "t", "o", " ", "f", "e", "t", "c", "h">>)
    /\ errors > 0
    /\ Len(appended) > 0 /\ appended[Len(appended)].role = "user"

\* the first request failed on the network: one error row, no assistant
\* turn, the composer usable again
C28_Witness ==
  /\ outcome.cause = "network" /\ outcome.kind = "rejected"
  /\ outcome.value = FetchTypeError
  /\ errors = 1 /\ ~sendDisabled /\ Len(history) = 1 /\ calls = 1

\* A field is absent or empty: it is missing or null, the empty string, or
\* (for a value that is not a string) the number 0 or false.
AbsentOrEmpty(x) ==
  \/ x.t \in {"undef", "null"}
  \/ x = Str(<<>>)
  \/ x = Num(0)
  \/ x = Bool(FALSE)

\* C29: the message is the first of body.answer, body.response,
\* body.message, body.output_text, body.text, body.content that is not
\* absent or empty, a later field only when every earlier one is absent or
\* empty; when one of the six is not, no envelope is consulted, and when all
\* six are and the payload carries neither raw nor candidates, the message
\* is the empty string.
C29_FirstNonEmptyField ==
  Returned =>
    LET b == TruthyBodyOf(FirstOrEmpty(payload))
        val(i) == FieldOf(b, MessageOrder[i])
    IN /\ \A i \in DOMAIN MessageOrder :
            (~AbsentOrEmpty(val(i)) /\ \A j \in 1..(i - 1) : AbsentOrEmpty(val(j)))
              => result.message = val(i)
       /\ ((\A i \in DOMAIN MessageOrder : AbsentOrEmpty(val(i)))
            /\ AbsentOrEmpty(FieldOf(b, "raw"))
            /\ AbsentOrEmpty(FieldOf(FirstOrEmpty(payload), "candidates")))
              => result.message = EmptyStr

\* answer is the empty string and output_text is not: output_text is the
\* message
C29_Witness ==
  /\ Returned
  /\ FieldOf(TruthyBodyOf(FirstOrEmpty(payload)), "answer") = EmptyStr
  /\ FieldOf(TruthyBodyOf(FirstOrEmpty(payload)), "output_text") = Str(<<"o">>)
  /\ result.message = Str(<<"o">>)

(***************************************************************************)
(* Invariants of the latched tracker and of its grace timer.               *)
(***************************************************************************)
\* C33: the tracker is latched exactly when the remembered occlusion is at
\* least OPEN_THRESH and unlatched exactly when it is 0; no value strictly
\* between 0 and OPEN_THRESH is ever remembered.
C33_LatchedIffRemembered ==
  /\ latched <=> lastPx >= OPEN_THRESH
  /\ ~latched <=> lastPx = 0
  /\ ~(0 < lastPx /\ lastPx < OPEN_THRESH)

\* the grace timer has unlatched a tracker that remembered 90 px while a
\* focus interval was running
C33_Witness ==
  /\ ev.kind = "grace" /\ ~latched /\ lastPx = 0 /\ IntervalCount > 0
  /\ pumpPending = 1

\* C34: a grace timer is pending only while the tracker is latched, and
\* never more than one: the handle zeroTimer is set exactly when one timer
\* is pending.
C34_OneGraceTimerWhileLatched ==
  /\ Len(graceTimers) <= 1
  /\ graceTimers # <<>> => latched
  /\ zeroTimer <=> graceTimers # <<>>

\* a grace timer has been found pending by a later low sample of a focus
\* interval, with a rotation and a viewport event outstanding
C34_Witness ==
  /\ graceTimers = <<TRUE>> /\ latched /\ zeroTimer /\ IntervalCount > 0
  /\ orientTimers > 0 /\ vvPending = 1

LowSample == ev.kind = "sample" /\ ev.occ < CLOSE_THRESH

\* C35: on a latched tracker the first sample below CLOSE_THRESH arms the
\* grace timer; a later one that finds it pending leaves that same timer
\* pending and arms no other, so the timer that unlatches is the one of
\* the first low sample.
C35_GraceTimerNotRestarted ==
  [][latched /\ LowSample' =>
       /\ (graceTimers = <<>> => graceTimers' = <<FALSE>>)
       /\ (graceTimers # <<>> => graceTimers' = <<TRUE>>)]_vars

\* the scenario's second 20 px sample found the timer of the first pending
C35_Witness ==
  /\ LowSample /\ ev.occ = 20 /\ latched /\ graceTimers = <<TRUE>> /\ kb = 70
  /\ run.on /\ Len(run.samples) = 5

\* C36: after a blur has published 0, a tick of a focus interval that was
\* started before the blur leaves the tracker unlatched and 0 published.
C36_TicksAfterBlurStayUnlatched ==
  [][ev.kind = "blur" /\ TicksLeft' < TicksLeft => ~latched' /\ kb' = 0]_vars

(***************************************************************************)
(* The outcome of a turn, and send on an empty composer.                   *)
(***************************************************************************)
Settled == Len(reqs') = Len(reqs) - 1

\* the reply normalizes to status "success" with a non-empty message
ReplyAccepted(data) ==
  \E now \in Clock :
    LET n == normalize(data, now)
    IN n # Throw /\ n.status = S_success /\ Truthy(n.message)

AssistantPushed ==
  /\ Len(appended') = Len(appended) + 1
  /\ appended'[Len(appended')].role = "assistant"
  /\ appended' = Append(appended, appended'[Len(appended')])
  /\ history' = Append(history, appended'[Len(appended')])

\* C32: an assistant turn is pushed exactly by the settling of a call that
\* resolved with a reply normalizing to success and a non-empty message;
\* every other settling shows one error and leaves the history, the user
\* turn included, as it was.
C32_AssistantTurnIffSuccess ==
  [][ /\ (appended' # appended
           /\ appended'[Len(appended')].role = "assistant")
        => Settled /\ outcome'.kind = "resolved" /\ ReplyAccepted(outcome'.value)
      /\ (Settled /\ outcome'.kind = "resolved" /\ ReplyAccepted(outcome'.value))
        => AssistantPushed /\ errors' = errors
      /\ (Settled /\ ~(outcome'.kind = "resolved" /\ ReplyAccepted(outcome'.value)))
        => errors' = errors + 1 /\ history' = history /\ appended' = appended ]_vars

\* two user turns in a row, the first one's call having failed, and then
\* the assistant's turn of the second
C32_Witness ==
  /\ Len(appended) = 3 /\ history = appended
  /\ appended[1].role = "user" /\ appended[2].role = "user"
  /\ appended[3].role = "assistant"
  /\ errors = 1 /\ reqs = <<>> /\ outcome.kind = "resolved" /\ ~cfg.mock

\* C38: send on an empty or whitespace-only composer text returns the
\* state it was given: no turn, no request, no error, the send control as
\* it was.
C38_EmptySendIsNoOp ==
  Trim(msgValue) = <<>> => send(Cur) = Cur /\ SubmitHandler(Cur) = Cur

\* a whitespace-only text in a composer on which a send with text would
\* have gone out
C38_Witness ==
  /\ msgValue = <<" ">> /\ ~sendDisabled /\ cfg.endpoint /\ cfg.id
  /\ Len(history) = 2 /\ reqs = <<>> /\ errors = 0

(***************************************************************************)
(* Claims about the page (specifications SpecPage and SpecPublish).        *)
(***************************************************************************)
\* C31: after any sequence of script loads and init() calls at most one
\* widget instance, one launcher container, exists on the page.
C31_AtMostOneWidget == Len(launchers) <= 1

IsWholePixels(c) == c.t = "num" /\ c.v >= 0 /\ c.v % 4 = 0

\* C37: every value published to the --kb property is a non-negative
\* whole number of pixels, whichever writer set it.
C37_PublishedWholePixels == kbCell # Undef => IsWholePixels(kbCell)

====
